---- MODULE Spec2Model ----
(***************************************************************************)
(* City Emergency Dispatch: the event generator (timer ISR), the           *)
(* dispatcher task, the department resource units and the logging module   *)
(* as one state machine over FreeRTOS queues.                              *)
(*                                                                         *)
(* Time is abstracted: a blocking call with a timeout either completes     *)
(* when the queue allows it or gives up, and a delay ends at any moment.   *)
(* Tasks are scheduled by priority (project_config.h): a task takes a step *)
(* only while no task of higher priority is ready; tasks of equal priority *)
(* interleave freely.  SpecGen is the timer interrupt on its own, Spec the *)
(* tasks with at most one resource unit, SpecUnits the tasks with the pool *)
(* of units of one department.                                             *)
(***************************************************************************)
EXTENDS Integers, Sequences, FiniteSets, TLC

(***************************************************************************)
(* Program constants (project_config.h, logging.h)                         *)
(***************************************************************************)
EVENT_TIMER_TICK_MS == 10
MIN_EVENT_DELAY_MS == 1000
MAX_EVENT_DELAY_MS == 5000
MIN_EVENT_DELAY_TICKS == MIN_EVENT_DELAY_MS \div EVENT_TIMER_TICK_MS
MAX_EVENT_DELAY_TICKS == MAX_EVENT_DELAY_MS \div EVENT_TIMER_TICK_MS
DELAY_RANGE_TICKS == MAX_EVENT_DELAY_TICKS - MIN_EVENT_DELAY_TICKS + 1

EVENT_CODE_POLICE == 1
EVENT_CODE_AMBULANCE == 2
EVENT_CODE_FIRE_DEPT == 3

RESOURCES_AMBULANCE == 4
RESOURCES_POLICE == 3
RESOURCES_FIRE_DEPT == 2

MIN_TASK_DURATION_TICKS == 200 \div EVENT_TIMER_TICK_MS
MAX_TASK_DURATION_TICKS == 1500 \div EVENT_TIMER_TICK_MS

DISPATCHER_QUEUE_LENGTH == 20
POLICE_DEPT_QUEUE_LENGTH == 10
AMBULANCE_DEPT_QUEUE_LENGTH == 10
FIRE_DEPT_QUEUE_LENGTH == 10
LOGGER_QUEUE_LENGTH == 50

LOG_LEVEL_DEBUG == 0
LOG_LEVEL_INFO == 1
LOG_LEVEL_WARN == 2
LOG_LEVEL_ERROR == 3
MIN_LOG_LEVEL == LOG_LEVEL_INFO

(***************************************************************************)
(* Bounds of the model                                                     *)
(***************************************************************************)
\* events the timer ISR generates in one run (SpecGen)
MaxGenEvents == 2
\* the low random values 0..RandSpread are among the RNG outputs drawn
RandSpread == 1
\* events waiting in the dispatcher queue in an initial state of Spec
MaxInitDispatch == 1
\* events the resource units receive in one run
MaxServed == 2
\* units of the department in an initial state of SpecUnits
MaxPoolUnits == 2
\* events waiting in the dispatcher queue in an initial state of SpecStall
MaxStallEvents == 3
\* a department init is called with up to this many units above its maximum
MaxOverRequest == 1
\* the formatted message is up to this many characters longer than the buffer
MaxOverLength == 2
MaxLogBacklog == 4
MaxStackWord == 1

(***************************************************************************)
(* 32-bit unsigned values are pairs <<hi, lo>> of 16-bit halves, so that   *)
(* the whole range of the RNG output is representable.                     *)
(***************************************************************************)
U32(hi, lo) == <<hi, lo>>
\* randomValue % m for a uint32_t randomValue and 0 < m < 2^15
U32Mod(r, m) == (((r[1] % m) * (65536 % m)) + r[2]) % m

TASK_RANGE == MAX_TASK_DURATION_TICKS - MIN_TASK_DURATION_TICKS + 1

\* 3 * DELAY_RANGE_TICKS * TASK_RANGE - 1 = 157592 = 2 * 65536 + 26520: the
\* value whose remainder is the largest one for the event code (2), for the
\* event delay (DELAY_RANGE_TICKS - 1) and for the task duration
\* (TASK_RANGE - 1) at once
TopOfRanges == U32(2, 26520)

\* outputs of the hardware RNG that the model draws: the low values, the
\* value at the top of every range, and the largest uint32_t
RandomValues ==
    {U32(0, l) : l \in 0..RandSpread} \cup {TopOfRanges, U32(65535, 65535)}

\* HAL_RNG_GenerateRandomNumber(&hrng, &randomValue): HAL_OK with a value, or
\* an error status that leaves randomValue unwritten
HAL_RNG_GenerateRandomNumber ==
    {[ok |-> TRUE, value |-> r] : r \in RandomValues}
        \cup {[ok |-> FALSE, value |-> U32(0, 0)]}

\* rand() of the C library: an int in 0..RAND_MAX
RAND_MAX == 2147483647
RandValues == {0, TASK_RANGE - 1, RAND_MAX}

(***************************************************************************)
(* Data                                                                    *)
(***************************************************************************)
QDispatcher == "Dispatcher"
QPolice == "Police"
QAmbulance == "Ambulance"
QFireDept == "FireDept"
QLogger == "Logger"
NoQueue == "NULL"

DeptQueues == {QPolice, QAmbulance, QFireDept}
EventQueues == {QDispatcher} \cup DeptQueues
QueueNames == EventQueues \cup {QLogger}

\* the length each queue is created with (CreateQueuesAndSemaphores, Logger_Init)
QueueLength(q) ==
    CASE q = QDispatcher -> DISPATCHER_QUEUE_LENGTH
      [] q = QAmbulance -> AMBULANCE_DEPT_QUEUE_LENGTH
      [] q = QPolice -> POLICE_DEPT_QUEUE_LENGTH
      [] q = QFireDept -> FIRE_DEPT_QUEUE_LENGTH
      [] q = QLogger -> LOGGER_QUEUE_LENGTH

\* EmergencyEvent_t; id is the identity of the event (not a field of the
\* struct): the events generated are numbered in the order of generation
\* timeStamp is the word the struct holds in that field
EmergencyEvent(code, n) == [eventCode |-> code, id |-> n, timeStamp |-> 0]
NoEvent == EmergencyEvent(0, 0)

VARIABLES
    \* event_generator.c
    ticksUntilNextEvent, currentTickCount, timerStarted,
    \* the FreeRTOS queues: their items, and the handles that are not NULL
    queues, handles,
    \* xTaskGetSchedulerState() = taskSCHEDULER_RUNNING
    schedulerRunning,
    \* Dispatcher_Task: its position and its locals
    disp,
    \* ResourceUnit_Task instances: position and locals of each created unit
    units,
    \* Logger_Task: its position and locals; the holder of xUartMutex; the
    \* record last handed to the UART
    logger, xUartMutex, uartOut,
    \* history of the generator: events generated in this run, ticks since
    \* the last generation (or since EventGenerator_Init), whether no event
    \* has been generated since EventGenerator_Init, the tick of the first
    \* generation, the ticks between the last two generations, the last
    \* generation as the handler saw it (tick: the TIM2 interrupts counted
    \* up to it)
    generated, sinceLast, firstPending, firstDelta, lastDelta, lastIsr,
    \* history of the dispatcher: what it did for the event it holds (or
    \* held last)
    route,
    \* history of the units: who received which event, and how many
    \* receives succeeded
    received, recvTotal,
    \* the start-up sequence (CreateQueuesAndSemaphores, InitializeModules,
    \* vTaskStartScheduler): its position, the unit count each department
    \* init is called with, what each returned, the log calls made so far,
    \* the calls in which the creation of a queue, lock or task failed, the
    \* xTaskCreate that failed in each department init, the calls made so far
    startup,
    \* one call of Project_Log seen at the level of its buffers
    fmt

genVars == <<ticksUntilNextEvent, currentTickCount, timerStarted>>
genHist == <<generated, sinceLast, firstPending, firstDelta, lastDelta, lastIsr>>
loggerVars == <<logger, xUartMutex, uartOut>>
unitHist == <<received, recvTotal>>
auxVars == <<startup, fmt>>
vars == <<genVars, queues, handles, schedulerRunning, disp, units, loggerVars,
          genHist, route, unitHist, auxVars>>

(***************************************************************************)
(* FreeRTOS queue primitives, on the item sequence of one queue            *)
(***************************************************************************)
uxQueueMessagesWaiting(q) == Len(queues[q])
uxQueueSpacesAvailable(q) == QueueLength(q) - Len(queues[q])

\* the queue q with item appended when there is room, unchanged otherwise
\* a send that puts the item at the head of the queue
QueueAfterSend_Lifo(q, item) ==
    IF uxQueueSpacesAvailable(q) > 0
    THEN [queues EXCEPT ![q] = <<item>> \o @]
    ELSE queues

\* a send that reports the item queued and loses it
QueueAfterSend_Lost(q, item) == queues

\* a send that does not look at the room left
QueueAfterSend_Unbounded(q, item) == [queues EXCEPT ![q] = Append(@, item)]

QueueAfterSend(q, item) ==
    IF uxQueueSpacesAvailable(q) > 0
    THEN [queues EXCEPT ![q] = Append(@, item)]
    ELSE queues

\* a handler that calls xQueueSendToFrontFromISR
xQueueSendFromISR_Front(q, item) ==
    [ok |-> uxQueueSpacesAvailable(q) > 0, after |-> QueueAfterSend_Lifo(q, item)]

\* xQueueSendFromISR: never waits; pdPASS iff the item was queued
xQueueSendFromISR(q, item) ==
    [ok |-> uxQueueSpacesAvailable(q) > 0, after |-> QueueAfterSend(q, item)]

(***************************************************************************)
(* Event generator (event_generator.c)                                     *)
(***************************************************************************)
\* static initialisers and EventGenerator_Init: first interval, counter
InitialTicksUntilNextEvent == MIN_EVENT_DELAY_TICKS

\* line 108: is it time to generate the event?
IsTimeToGenerate_Mut(count, until) == count > until

IsTimeToGenerate(count, until) == count >= until

\* lines 114-122: the event code from the first RNG draw
GeneratedEventCode_Mut(rc) ==
    IF rc.ok THEN U32Mod(rc.value, 3) ELSE EVENT_CODE_POLICE

GeneratedEventCode(rc) ==
    IF rc.ok THEN U32Mod(rc.value, 3) + 1 ELSE EVENT_CODE_POLICE

\* lines 139-148: the next interval from the second RNG draw
NextEventDelay_Mut(rd) ==
    IF rd.ok THEN U32Mod(rd.value, DELAY_RANGE_TICKS)
    ELSE MIN_EVENT_DELAY_TICKS

\* no interval set after a failed draw
NextEventDelay_FailZero(rd) ==
    IF rd.ok THEN U32Mod(rd.value, DELAY_RANGE_TICKS) + MIN_EVENT_DELAY_TICKS
    ELSE 0

\* the interval after a failed draw taken as the longest one
NextEventDelay_FailMax(rd) ==
    IF rd.ok THEN U32Mod(rd.value, DELAY_RANGE_TICKS) + MIN_EVENT_DELAY_TICKS
    ELSE MAX_EVENT_DELAY_TICKS

NextEventDelay(rd) ==
    IF rd.ok THEN U32Mod(rd.value, DELAY_RANGE_TICKS) + MIN_EVENT_DELAY_TICKS
    ELSE MIN_EVENT_DELAY_TICKS

\* the words an uninitialized stack slot can hold
StackWords == 0..MaxStackWord

\* identities of the events present in the initial state are at most IdBase
IdBase ==
    DISPATCHER_QUEUE_LENGTH + POLICE_DEPT_QUEUE_LENGTH
        + AMBULANCE_DEPT_QUEUE_LENGTH + FIRE_DEPT_QUEUE_LENGTH

\* the generation step with the handler returning as soon as the send fails
GenerateEvent_Mut(rc, rd, ts) ==
    LET ev == [EmergencyEvent(GeneratedEventCode(rc), IdBase + generated + 1)
                  EXCEPT !.timeStamp = ts]
        sent == IF QDispatcher \in handles
                THEN xQueueSendFromISR(QDispatcher, ev)
                ELSE [ok |-> FALSE, after |-> queues]
    IN  /\ queues' = sent.after
        /\ ticksUntilNextEvent' =
              IF sent.ok THEN NextEventDelay(rd) ELSE ticksUntilNextEvent
        /\ currentTickCount' = IF sent.ok THEN 0 ELSE currentTickCount + 1
        /\ generated' = generated + 1
        /\ lastIsr' = [event |-> ev, accepted |-> sent.ok,
                       wasFull |-> uxQueueSpacesAvailable(QDispatcher) = 0,
                       rngOk |-> rc.ok, delayOk |-> rd.ok,
                       tick |-> lastIsr.tick + sinceLast + 1]
        /\ firstPending' = FALSE
        /\ firstDelta' = IF firstPending THEN sinceLast + 1 ELSE firstDelta
        /\ lastDelta' = IF firstPending THEN lastDelta ELSE sinceLast + 1
        /\ sinceLast' = 0

\* the TIM2 branch of the callback when the counter reaches the threshold:
\* lines 110-155. eventToSend is a local that is not initialized (line 111)
\* and only its eventCode is assigned: its timeStamp is the word ts that
\* the stack holds there
GenerateEvent(rc, rd, ts) ==
    LET ev == [EmergencyEvent(GeneratedEventCode(rc), IdBase + generated + 1)
                  EXCEPT !.timeStamp = ts]
        sent == IF QDispatcher \in handles
                THEN xQueueSendFromISR(QDispatcher, ev)
                ELSE [ok |-> FALSE, after |-> queues]
    IN  /\ queues' = sent.after
        /\ ticksUntilNextEvent' = NextEventDelay(rd)
        /\ currentTickCount' = 0
        /\ generated' = generated + 1
        /\ lastIsr' = [event |-> ev, accepted |-> sent.ok,
                       wasFull |-> uxQueueSpacesAvailable(QDispatcher) = 0,
                       rngOk |-> rc.ok, delayOk |-> rd.ok,
                       tick |-> lastIsr.tick + sinceLast + 1]
        /\ firstPending' = FALSE
        /\ firstDelta' = IF firstPending THEN sinceLast + 1 ELSE firstDelta
        /\ lastDelta' = IF firstPending THEN lastDelta ELSE sinceLast + 1
        /\ sinceLast' = 0

\* HAL_TIM_PeriodElapsedCallback(htim): one timer interrupt
HAL_TIM_PeriodElapsedCallback ==
    /\ timerStarted
    /\ \E htim \in {"TIM1", "TIM2"} :
          IF htim = "TIM1"
          THEN \* HAL_IncTick(): the HAL time base, no state of this program
               UNCHANGED <<genVars, genHist, queues>>
          ELSE IF IsTimeToGenerate(currentTickCount + 1, ticksUntilNextEvent)
               THEN \E rc \in HAL_RNG_GenerateRandomNumber,
                       rd \in HAL_RNG_GenerateRandomNumber,
                       ts \in StackWords :
                          GenerateEvent(rc, rd, ts)
               ELSE /\ currentTickCount' = currentTickCount + 1
                    /\ sinceLast' = sinceLast + 1
                    /\ UNCHANGED <<ticksUntilNextEvent, queues, generated,
                                   firstPending, firstDelta, lastDelta, lastIsr>>
    /\ UNCHANGED <<auxVars, timerStarted, handles, schedulerRunning, disp, units,
                   loggerVars, route, unitHist>>

(***************************************************************************)
(* Logging (logging.h, logging.c)                                          *)
(***************************************************************************)
\* the record Project_Log queues: the level and the call site of the message
LogRecord(level, site) == [level |-> level, site |-> site]
NoRecord == LogRecord(LOG_LEVEL_DEBUG, "none")

\* a Log_Base without the test of the level
LogCompiled_Mut(level) == TRUE

\* Log_Base: the call reaches Project_Log iff level >= MIN_LOG_LEVEL
LogCompiled(level) == level >= MIN_LOG_LEVEL

\* Project_Log without the test of line 94
LogReady_Mut == TRUE

\* Project_Log line 94: the queue exists and the scheduler runs
LogReady == QLogger \in handles /\ schedulerRunning

\* The queues after a call LogX(...) that has returned: nothing when the
\* level is compiled out or the logger is not ready; the record appended when
\* the log queue has room; nothing when the 10 ms wait for room timed out.
\* (A caller that finds room only after waiting is the logger taking an item
\* first and this call after it.)
Project_Log_Mut(level, site) ==
    IF LogCompiled(level) /\ LogReady
    THEN IF uxQueueSpacesAvailable(QLogger) > 0
         THEN QueueAfterSend(QLogger, LogRecord(level, site))
         ELSE [queues EXCEPT ![QLogger] =
                  Append(Tail(@), LogRecord(level, site))]
    ELSE queues

Project_Log(level, site) ==
    IF LogCompiled(level) /\ LogReady
    THEN QueueAfterSend(QLogger, LogRecord(level, site))
    ELSE queues

(***************************************************************************)
(* Dispatcher (dispatcher.c, Dispatcher_Task)                              *)
(***************************************************************************)
\* lines 229-252: primary queue, alternative queue and attemptRedirect for an
\* event code; known is FALSE for the default branch
RoutingRule_Mut(code) ==
    CASE code = EVENT_CODE_POLICE ->
            [known |-> TRUE, primary |-> QPolice, alternative |-> QFireDept,
             attemptRedirect |-> TRUE]
      [] code = EVENT_CODE_AMBULANCE ->
            [known |-> TRUE, primary |-> QAmbulance, alternative |-> QPolice,
             attemptRedirect |-> TRUE]
      [] code = EVENT_CODE_FIRE_DEPT ->
            [known |-> TRUE, primary |-> QFireDept, alternative |-> NoQueue,
             attemptRedirect |-> FALSE]
      [] OTHER ->
            [known |-> FALSE, primary |-> NoQueue, alternative |-> NoQueue,
             attemptRedirect |-> FALSE]

\* a switch that lets Fire events overflow into the Police queue
RoutingRule_FireToPolice(code) ==
    CASE code = EVENT_CODE_POLICE ->
            [known |-> TRUE, primary |-> QPolice, alternative |-> NoQueue,
             attemptRedirect |-> FALSE]
      [] code = EVENT_CODE_AMBULANCE ->
            [known |-> TRUE, primary |-> QAmbulance, alternative |-> QPolice,
             attemptRedirect |-> TRUE]
      [] code = EVENT_CODE_FIRE_DEPT ->
            [known |-> TRUE, primary |-> QFireDept, alternative |-> QPolice,
             attemptRedirect |-> TRUE]
      [] OTHER ->
            [known |-> FALSE, primary |-> NoQueue, alternative |-> NoQueue,
             attemptRedirect |-> FALSE]

\* a switch whose default branch routes to the Police queue
RoutingRule_Default(code) ==
    CASE code = EVENT_CODE_AMBULANCE ->
            [known |-> TRUE, primary |-> QAmbulance, alternative |-> QPolice,
             attemptRedirect |-> TRUE]
      [] code = EVENT_CODE_FIRE_DEPT ->
            [known |-> TRUE, primary |-> QFireDept, alternative |-> NoQueue,
             attemptRedirect |-> FALSE]
      [] OTHER ->
            [known |-> TRUE, primary |-> QPolice, alternative |-> NoQueue,
             attemptRedirect |-> FALSE]

RoutingRule(code) ==
    CASE code = EVENT_CODE_POLICE ->
            [known |-> TRUE, primary |-> QPolice, alternative |-> NoQueue,
             attemptRedirect |-> FALSE]
      [] code = EVENT_CODE_AMBULANCE ->
            [known |-> TRUE, primary |-> QAmbulance, alternative |-> QPolice,
             attemptRedirect |-> TRUE]
      [] code = EVENT_CODE_FIRE_DEPT ->
            [known |-> TRUE, primary |-> QFireDept, alternative |-> NoQueue,
             attemptRedirect |-> FALSE]
      [] OTHER ->
            [known |-> FALSE, primary |-> NoQueue, alternative |-> NoQueue,
             attemptRedirect |-> FALSE]

\* the locals of one loop iteration before the switch (lines 222-226)
DispLocals ==
    [xPrimaryQueue |-> NoQueue, xAlternativeQueue |-> NoQueue,
     attemptRedirect |-> FALSE, primaryQueueSpaces |-> 0,
     alternativeQueueSpaces |-> 0]

\* the task at the top of its loop, blocked in xQueueReceive (line 214)
DispAt(pc, ev, locals) == [pc |-> pc, receivedEvent |-> ev, locals |-> locals]

\* line 267: send to the primary queue rather than look at the alternative
SendToPrimary(spaces, attemptRedirect, alternative) ==
    spaces > 0 \/ ~attemptRedirect \/ alternative = NoQueue

\* line 289: redirect to the alternative queue
RedirectToAlternative_Mut(spaces) == spaces >= 0

RedirectToAlternative(spaces) == spaces > 0

\* the positions of the task, named by the line of the statement to execute
LogPcs == {"L209", "L250", "L258", "L277", "L283", "L292", "L297", "L299",
           "L303", "L310", "L314"}
SendPcs == {"L274", "L294", "L300", "L311"}

\* the level of the log call at each log position
LogLevelAt(pc) ==
    CASE pc \in {"L209", "L292"} -> LOG_LEVEL_INFO
      [] pc \in {"L250", "L258", "L283", "L299", "L310"} -> LOG_LEVEL_WARN
      [] pc \in {"L277", "L297", "L303", "L314"} -> LOG_LEVEL_ERROR

\* the statement that follows each log call
AfterLog(pc) ==
    CASE pc \in {"L209", "L250", "L258", "L277", "L303", "L314"} -> "L214"
      [] pc = "L283" -> "L286"
      [] pc = "L292" -> "L294"
      [] pc = "L297" -> "L299"
      [] pc = "L299" -> "L300"
      [] pc = "L310" -> "L311"

\* the queue each xQueueSend addresses
SendTarget_Mut(pc, locals) == locals.xPrimaryQueue

SendTarget(pc, locals) ==
    IF pc = "L294" THEN locals.xAlternativeQueue ELSE locals.xPrimaryQueue

\* the statement executed when xQueueSend did not return pdPASS
SendFailPc_Mut(pc) ==
    CASE pc = "L274" -> "L214"
      [] pc = "L294" -> "L297"
      [] pc = "L300" -> "L303"
      [] pc = "L311" -> "L214"

\* a router that gives the event up when the send to the alternative fails
SendFailPc_NoFallback(pc) ==
    CASE pc = "L274" -> "L277"
      [] pc = "L294" -> "L214"
      [] pc = "L300" -> "L303"
      [] pc = "L311" -> "L314"

SendFailPc(pc) ==
    CASE pc = "L274" -> "L277"
      [] pc = "L294" -> "L297"
      [] pc = "L300" -> "L303"
      [] pc = "L311" -> "L314"

\* history of the routing of one event: the event, the log calls made, the
\* sends attempted and the free-space reads, in order
RouteOf(ev) == [ev |-> ev, logs |-> <<>>, sends |-> <<>>, checks |-> <<>>]

(***************************************************************************)
(* Scheduling: TASK_PRIO_DISPATCHER > TASK_PRIO_DEPT_LOW > TASK_PRIO_LOGGER *)
(***************************************************************************)
\* a call LogX(level, ...) would wait for room in the log queue
LogWouldBlock(level) ==
    LogCompiled(level) /\ LogReady /\ uxQueueSpacesAvailable(QLogger) = 0

\* the dispatcher task can run without waiting
DispReady ==
    /\ schedulerRunning
    /\ CASE disp.pc = "L214" ->
               QDispatcher \in handles /\ uxQueueMessagesWaiting(QDispatcher) > 0
         [] disp.pc \in SendPcs ->
               uxQueueSpacesAvailable(SendTarget(disp.pc, disp.locals)) > 0
         [] disp.pc \in LogPcs -> ~LogWouldBlock(LogLevelAt(disp.pc))
         [] OTHER -> TRUE

\* unit u can run without waiting
UnitReady(u) ==
    /\ schedulerRunning
    /\ CASE units[u].pc = "R64" -> uxQueueMessagesWaiting(u[1]) > 0
         [] units[u].pc = "R75d" -> FALSE
         [] units[u].pc \in {"R58", "R70", "R77"} -> ~LogWouldBlock(LOG_LEVEL_INFO)
         [] OTHER -> TRUE

\* a task of each priority may take a step
DispatcherRuns == schedulerRunning
UnitRuns == schedulerRunning /\ ~DispReady
LoggerRuns ==
    schedulerRunning /\ ~DispReady /\ \A u \in DOMAIN units : ~UnitReady(u)

\* line 209 and every LogWarn/LogInfo/LogError of the loop
Dispatcher_Log ==
    /\ DispatcherRuns
    /\ disp.pc \in LogPcs
    /\ queues' = Project_Log(LogLevelAt(disp.pc), disp.pc)
    /\ disp' = [disp EXCEPT !.pc = AfterLog(disp.pc),
                            !.locals = IF AfterLog(disp.pc) = "L214"
                                       THEN DispLocals ELSE @]
    /\ route' = [route EXCEPT !.logs =
                    Append(@, LogRecord(LogLevelAt(disp.pc), disp.pc))]
    /\ UNCHANGED <<auxVars, genVars, genHist, handles, schedulerRunning, units,
                   loggerVars, unitHist>>

\* lines 214-260: xQueueReceive(xDispatcherQueue, portMAX_DELAY), the switch
\* and the NULL check of the primary queue
Dispatcher_Receive ==
    /\ DispatcherRuns
    /\ disp.pc = "L214"
    /\ QDispatcher \in handles
    /\ uxQueueMessagesWaiting(QDispatcher) > 0
    /\ LET ev == Head(queues[QDispatcher])
           rule == RoutingRule(ev.eventCode)
       IN  /\ queues' = [queues EXCEPT ![QDispatcher] = Tail(@)]
           /\ route' = RouteOf(ev)
           /\ disp' =
                IF ~rule.known
                THEN DispAt("L250", ev, DispLocals)
                ELSE DispAt(IF rule.primary \in handles THEN "L263" ELSE "L258",
                            ev,
                            [DispLocals EXCEPT
                                !.xPrimaryQueue = rule.primary,
                                !.xAlternativeQueue = rule.alternative,
                                !.attemptRedirect = rule.attemptRedirect])
    /\ UNCHANGED <<auxVars, genVars, genHist, handles, schedulerRunning, units,
                   loggerVars, unitHist>>

\* lines 263-267: uxQueueSpacesAvailable(xPrimaryQueue) and the decision
Dispatcher_CheckPrimary ==
    /\ DispatcherRuns
    /\ disp.pc = "L263"
    /\ LET q == disp.locals.xPrimaryQueue
           spaces == uxQueueSpacesAvailable(q)
       IN  /\ disp' = [disp EXCEPT
                 !.locals.primaryQueueSpaces = spaces,
                 !.pc = IF SendToPrimary(spaces, disp.locals.attemptRedirect,
                                         disp.locals.xAlternativeQueue)
                        THEN "L274" ELSE "L283"]
           /\ route' = [route EXCEPT !.checks =
                          Append(@, [q |-> q, spaces |-> spaces])]
    /\ UNCHANGED <<auxVars, genVars, genHist, queues, handles, schedulerRunning, units,
                   loggerVars, unitHist>>

\* lines 286-289: uxQueueSpacesAvailable(xAlternativeQueue) and the decision
Dispatcher_CheckAlternative ==
    /\ DispatcherRuns
    /\ disp.pc = "L286"
    /\ LET q == disp.locals.xAlternativeQueue
           spaces == uxQueueSpacesAvailable(q)
       IN  /\ disp' = [disp EXCEPT
                 !.locals.alternativeQueueSpaces = spaces,
                 !.pc = IF RedirectToAlternative(spaces) THEN "L292" ELSE "L310"]
           /\ route' = [route EXCEPT !.checks =
                          Append(@, [q |-> q, spaces |-> spaces])]
    /\ UNCHANGED <<auxVars, genVars, genHist, queues, handles, schedulerRunning, units,
                   loggerVars, unitHist>>

\* xQueueSend(q, ..., xSendTicksToWait) returns: at once when q has room,
\* after the 10 ms of line 205 otherwise
SendReturns_Mut(q) == uxQueueSpacesAvailable(q) > 0

SendReturns(q) == TRUE

\* lines 274, 294, 300, 311: xQueueSend(queue, &receivedEvent, 10 ms) has
\* returned: pdPASS with the event queued when the queue has room, a
\* timeout with the queue untouched when it is full. (A send that finds
\* room after waiting is a unit's receive first and this step after it.)
Dispatcher_Send ==
    /\ DispatcherRuns
    /\ disp.pc \in SendPcs
    /\ SendReturns(SendTarget(disp.pc, disp.locals))
    /\ LET q == SendTarget(disp.pc, disp.locals)
           ok == uxQueueSpacesAvailable(q) > 0
       IN  /\ queues' = QueueAfterSend(q, disp.receivedEvent)
           /\ disp' = IF ok
                      THEN [disp EXCEPT !.pc = "L214", !.locals = DispLocals]
                      ELSE [disp EXCEPT !.pc = SendFailPc(disp.pc),
                                        !.locals = IF SendFailPc(disp.pc) = "L214"
                                                   THEN DispLocals ELSE @]
           /\ route' = [route EXCEPT !.sends =
                          Append(@, [q |-> q, ok |-> ok, at |-> disp.pc])]
    /\ UNCHANGED <<auxVars, genVars, genHist, handles, schedulerRunning, units,
                   loggerVars, unitHist>>

(***************************************************************************)
(* Resource units (resource_task.c)                                        *)
(***************************************************************************)
\* the units a department can have: <<department queue, index>>
MaxUnitsOf(q) ==
    CASE q = QPolice -> RESOURCES_POLICE
      [] q = QAmbulance -> RESOURCES_AMBULANCE
      [] q = QFireDept -> RESOURCES_FIRE_DEPT
AllUnits == {<<q, i>> : q \in DeptQueues, i \in 1..RESOURCES_AMBULANCE}
UnitIds == {u \in AllUnits : u[2] <= MaxUnitsOf(u[1])}

\* position and locals of a unit
\* (rngOk: whether the hardware RNG answered the draw of the duration held)
UnitAt(pc, ev, d) ==
    [pc |-> pc, receivedEvent |-> ev, taskDurationTicks |-> d, rngOk |-> TRUE]

\* GetRandomTaskDurationTicks with the outcome rng of the hardware RNG and
\* the value rnd of rand() (lines 101-116)
GetRandomTaskDurationTicks_Mut(rng, rnd) ==
    IF rng.ok
    THEN U32Mod(rng.value, TASK_RANGE) + MIN_TASK_DURATION_TICKS
    ELSE 500

GetRandomTaskDurationTicks(rng, rnd) ==
    IF rng.ok
    THEN U32Mod(rng.value, TASK_RANGE) + MIN_TASK_DURATION_TICKS
    ELSE (rnd % TASK_RANGE) + MIN_TASK_DURATION_TICKS

\* the items left in a queue by a successful xQueueReceive
ItemsAfterReceive_Mut(items) == items

ItemsAfterReceive(items) == Tail(items)

UnitLogPcs == {"R58", "R70", "R77"}
UnitAfterLog(pc) ==
    CASE pc = "R58" -> "R64"
      [] pc = "R70" -> "R73"
      [] pc = "R77" -> "R64"

\* lines 58, 70, 77: LogInfo
Unit_Log(u) ==
    /\ UnitRuns
    /\ units[u].pc \in UnitLogPcs
    /\ queues' = Project_Log(LOG_LEVEL_INFO, units[u].pc)
    /\ units' = [units EXCEPT ![u] =
                    IF units[u].pc = "R77"
                    THEN UnitAt("R64", NoEvent, 0)
                    ELSE [@ EXCEPT !.pc = UnitAfterLog(units[u].pc)]]
    /\ UNCHANGED <<auxVars, genVars, genHist, handles, schedulerRunning, disp,
                   loggerVars, route, unitHist>>

\* a unit that receives only once no unit of its department is in service
Unit_Receive_AllIdle(u) ==
    /\ UnitRuns
    /\ units[u].pc = "R64"
    /\ \A v \in DOMAIN units : v[1] = u[1] => units[v].pc = "R64"
    /\ recvTotal < MaxServed
    /\ uxQueueMessagesWaiting(u[1]) > 0
    /\ LET ev == Head(queues[u[1]])
       IN  /\ queues' = [queues EXCEPT ![u[1]] = ItemsAfterReceive(@)]
           /\ units' = [units EXCEPT ![u] = UnitAt("R70", ev, 0)]
           /\ received' = received \cup {<<ev.id, u>>}
           /\ recvTotal' = recvTotal + 1
    /\ UNCHANGED <<auxVars, genVars, genHist, handles, schedulerRunning, disp,
                   loggerVars, route>>

\* a unit that also receives while it is suspended in vTaskDelay
Unit_Receive_Busy(u) ==
    /\ UnitRuns
    /\ units[u].pc \in {"R64", "R75d"}
    /\ recvTotal < MaxServed
    /\ uxQueueMessagesWaiting(u[1]) > 0
    /\ LET ev == Head(queues[u[1]])
       IN  /\ queues' = [queues EXCEPT ![u[1]] = ItemsAfterReceive(@)]
           /\ units' = [units EXCEPT ![u] = UnitAt("R70", ev, 0)]
           /\ received' = received \cup {<<ev.id, u>>}
           /\ recvTotal' = recvTotal + 1
    /\ UNCHANGED <<auxVars, genVars, genHist, handles, schedulerRunning, disp,
                   loggerVars, route>>

\* line 64: xQueueReceive(xDepartmentQueue, &receivedEvent, portMAX_DELAY)
Unit_Receive(u) ==
    /\ UnitRuns
    /\ units[u].pc = "R64"
    /\ recvTotal < MaxServed
    /\ uxQueueMessagesWaiting(u[1]) > 0
    /\ LET ev == Head(queues[u[1]])
       IN  /\ queues' = [queues EXCEPT ![u[1]] = ItemsAfterReceive(@)]
           /\ units' = [units EXCEPT ![u] = UnitAt("R70", ev, 0)]
           /\ received' = received \cup {<<ev.id, u>>}
           /\ recvTotal' = recvTotal + 1
    /\ UNCHANGED <<auxVars, genVars, genHist, handles, schedulerRunning, disp,
                   loggerVars, route>>

\* line 73: taskDurationTicks = GetRandomTaskDurationTicks()
Unit_DrawDuration(u) ==
    /\ UnitRuns
    /\ units[u].pc = "R73"
    /\ \E rng \in HAL_RNG_GenerateRandomNumber, rnd \in RandValues :
          units' = [units EXCEPT ![u] =
                      [@ EXCEPT !.pc = "R75",
                                !.taskDurationTicks =
                                    GetRandomTaskDurationTicks(rng, rnd),
                                !.rngOk = rng.ok]]
    /\ UNCHANGED <<auxVars, genVars, genHist, queues, handles, schedulerRunning, disp,
                   loggerVars, route, unitHist>>

\* line 75: vTaskDelay(taskDurationTicks) is called and the unit is suspended
\* (the local is not read again; the time left is abstracted)
Unit_Delay(u) ==
    /\ UnitRuns
    /\ units[u].pc = "R75"
    /\ units' = [units EXCEPT ![u] =
                    [@ EXCEPT !.pc = "R75d", !.taskDurationTicks = 0,
                              !.rngOk = TRUE]]
    /\ UNCHANGED <<auxVars, genVars, genHist, queues, handles, schedulerRunning, disp,
                   loggerVars, route, unitHist>>

\* vTaskDelay returns: the duration has elapsed
Unit_DelayElapsed(u) ==
    /\ UnitRuns
    /\ units[u].pc = "R75d"
    /\ units' = [units EXCEPT ![u] = [@ EXCEPT !.pc = "R77"]]
    /\ UNCHANGED <<auxVars, genVars, genHist, queues, handles, schedulerRunning, disp,
                   loggerVars, route, unitHist>>

(***************************************************************************)
(* Logger task (logging.c, Logger_Task)                                    *)
(***************************************************************************)
UartMutex == "UartMutex"
\* position and locals of the task; txOk is the status HAL_UART_Transmit
\* returned, until the statement that discards it has ended
LoggerAt(pc, rec) == [pc |-> pc, logBuffer |-> rec, txOk |-> TRUE]

\* line 174: xQueueReceive(xLoggerQueue, logBuffer, portMAX_DELAY); line 182
Logger_Receive ==
    /\ LoggerRuns
    /\ logger.pc = "G174"
    /\ QLogger \in handles
    /\ uxQueueMessagesWaiting(QLogger) > 0
    /\ logger' = LoggerAt(IF UartMutex \in handles THEN "G184" ELSE "G174",
                          Head(queues[QLogger]))
    /\ queues' = [queues EXCEPT ![QLogger] = Tail(@)]
    /\ UNCHANGED <<auxVars, genVars, genHist, handles, schedulerRunning, disp, units,
                   xUartMutex, uartOut, route, unitHist>>

\* xSemaphoreTake that puts the record back in the queue when it times out
Logger_TakeMutex_Mut ==
    /\ LoggerRuns
    /\ logger.pc = "G184"
    /\ IF xUartMutex = "free"
       THEN /\ xUartMutex' = "Logger"
            /\ logger' = [logger EXCEPT !.pc = "G189"]
            /\ queues' = queues
       ELSE /\ xUartMutex' = xUartMutex
            /\ logger' = LoggerAt("G174", NoRecord)
            /\ queues' = QueueAfterSend(QLogger, logger.logBuffer)
    /\ UNCHANGED <<auxVars, genVars, genHist, handles, schedulerRunning, disp,
                   units, uartOut, route, unitHist>>

\* line 184: xSemaphoreTake(xUartMutex, 100 ms): taken when free, given up
\* otherwise (the record is dropped)
Logger_TakeMutex ==
    /\ LoggerRuns
    /\ logger.pc = "G184"
    /\ IF xUartMutex = "free"
       THEN /\ xUartMutex' = "Logger"
            /\ logger' = [logger EXCEPT !.pc = "G189"]
       ELSE /\ xUartMutex' = xUartMutex
            /\ logger' = LoggerAt("G174", NoRecord)
    /\ UNCHANGED <<auxVars, genVars, genHist, queues, handles, schedulerRunning, disp,
                   units, uartOut, route, unitHist>>

\* line 189: HAL_UART_Transmit(&huart3, logBuffer, strlen, 100 ms); its
\* status is not read
Logger_Transmit ==
    /\ LoggerRuns
    /\ logger.pc = "G189"
    /\ \E ok \in BOOLEAN : logger' = [logger EXCEPT !.pc = "G192", !.txOk = ok]
    /\ uartOut' = logger.logBuffer
    /\ UNCHANGED <<auxVars, genVars, genHist, queues, handles, schedulerRunning, disp,
                   units, xUartMutex, route, unitHist>>

\* a give that is skipped after a failed transmit
Logger_Give_Mut ==
    /\ LoggerRuns
    /\ logger.pc = "G192"
    /\ xUartMutex' = IF logger.txOk THEN "free" ELSE xUartMutex
    /\ logger' = LoggerAt("G174", NoRecord)
    /\ UNCHANGED <<auxVars, genVars, genHist, queues, handles, schedulerRunning, disp,
                   units, uartOut, route, unitHist>>

\* line 192: xSemaphoreGive(xUartMutex)
Logger_Give ==
    /\ LoggerRuns
    /\ logger.pc = "G192"
    /\ xUartMutex' = "free"
    /\ logger' = LoggerAt("G174", NoRecord)
    /\ UNCHANGED <<auxVars, genVars, genHist, queues, handles, schedulerRunning, disp,
                   units, uartOut, route, unitHist>>

(***************************************************************************)
(* Project_Log at the level of its buffers (logging.c, lines 85-146)       *)
(***************************************************************************)
LOGGER_MSG_MAX_SIZE == 128

\* the cells of the model of buffer[]: the array and the memory after it
BufferCells == 0..(2 * LOGGER_MSG_MAX_SIZE)
\* a cell holds a character of the prefix ("p") or of the message ("m"),
\* CR, LF, NUL, or has not been written ("?")
FreshBuffer == [i \in BufferCells |-> "?"]

\* lines 100-118: every prefix string has 8 characters
PrefixLen(level) == 8

\* line 114, 117: vsnprintf(tempBuffer, sizeof(tempBuffer), ...) keeps at
\* most sizeof(tempBuffer) - 1 characters of the formatted message
TempLen(msgLen) ==
    IF msgLen < LOGGER_MSG_MAX_SIZE - 1 THEN msgLen ELSE LOGGER_MSG_MAX_SIZE - 1

\* snprintf(buffer + off, size, "%s", <len characters ch>): the buffer after
\* it. With size > 0 at most size - 1 characters and a NUL are written; a
\* size that is not positive is a huge size_t, and nothing is cut.
Snprintf(buf, off, size, len, ch) ==
    LET n == IF size > 0 /\ len > size - 1 THEN size - 1 ELSE len
    IN  [i \in BufferCells |->
            IF i >= off /\ i < off + n THEN ch
            ELSE IF i = off + n THEN "NUL"
            ELSE buf[i]]

\* lines 126-139: the line terminator, at currentLen when the three
\* characters fit, in the last three cells otherwise
Terminate_Mut(buf, currentLen) ==
    [buf EXCEPT ![currentLen] = "CR", ![currentLen + 1] = "LF",
                ![currentLen + 2] = "NUL"]

Terminate(buf, currentLen) ==
    IF currentLen < LOGGER_MSG_MAX_SIZE - 2
    THEN [buf EXCEPT ![currentLen] = "CR", ![currentLen + 1] = "LF",
                     ![currentLen + 2] = "NUL"]
    ELSE [buf EXCEPT ![LOGGER_MSG_MAX_SIZE - 3] = "CR",
                     ![LOGGER_MSG_MAX_SIZE - 2] = "LF",
                     ![LOGGER_MSG_MAX_SIZE - 1] = "NUL"]

\* currentLen after lines 126-139
LenAfterTerminate(currentLen) ==
    IF currentLen < LOGGER_MSG_MAX_SIZE - 2
    THEN currentLen + 2
    ELSE LOGGER_MSG_MAX_SIZE - 1

\* a call Project_Log(level, ...) whose formatted message has msgLen
\* characters, at position pc
FmtAt(pc, level, msgLen) ==
    [pc |-> pc, level |-> level, msgLen |-> msgLen, tempLen |-> 0,
     buffer |-> FreshBuffer, currentLen |-> 0]

\* no call is being looked at
FmtIdle == FmtAt("idle", LOG_LEVEL_DEBUG, 0)

\* lines 99-118: the level prefix and the user's message in tempBuffer
Fmt_Message ==
    /\ fmt.pc = "F99"
    /\ fmt' = [fmt EXCEPT !.pc = "F121", !.tempLen = TempLen(fmt.msgLen)]
    /\ UNCHANGED <<genVars, genHist, queues, handles, schedulerRunning, disp,
                   units, loggerVars, route, unitHist, startup>>

\* lines 121-124: the two snprintf calls into buffer; each returns the
\* length of what it was asked to write
Fmt_Assemble ==
    /\ fmt.pc = "F121"
    /\ LET len1 == PrefixLen(fmt.level)
           buf1 == Snprintf(fmt.buffer, 0, LOGGER_MSG_MAX_SIZE, len1, "p")
           buf2 == Snprintf(buf1, len1, LOGGER_MSG_MAX_SIZE - len1,
                            fmt.tempLen, "m")
       IN  fmt' = [fmt EXCEPT !.pc = "F126", !.buffer = buf2,
                              !.currentLen = len1 + fmt.tempLen]
    /\ UNCHANGED <<genVars, genHist, queues, handles, schedulerRunning, disp,
                   units, loggerVars, route, unitHist, startup>>

\* lines 126-139: CR LF NUL
Fmt_Terminate ==
    /\ fmt.pc = "F126"
    /\ fmt' = [fmt EXCEPT !.pc = "F151",
                          !.buffer = Terminate(fmt.buffer, fmt.currentLen),
                          !.currentLen = LenAfterTerminate(fmt.currentLen)]
    /\ UNCHANGED <<genVars, genHist, queues, handles, schedulerRunning, disp,
                   units, loggerVars, route, unitHist, startup>>

\* logging.h lines 211-218, a call LogX(...) of some task seen step by step:
\* the macro tests the level and calls Project_Log only at or above
\* MIN_LOG_LEVEL; below it the call is over and fmt only remembers which call
\* was looked at
Log_Base(level, msgLen) ==
    /\ fmt.pc = "idle"
    /\ fmt' = IF LogCompiled(level)
              THEN FmtAt("F94", level, msgLen)
              ELSE FmtAt("idle", level, msgLen)
    /\ UNCHANGED <<genVars, genHist, queues, handles, schedulerRunning, disp,
                   units, loggerVars, route, unitHist, startup>>

\* line 94: return when the queue does not exist or the scheduler is not
\* running
Fmt_Guard ==
    /\ fmt.pc = "F94"
    /\ fmt' = [fmt EXCEPT !.pc = IF LogReady THEN "F99" ELSE "idle"]
    /\ UNCHANGED <<genVars, genHist, queues, handles, schedulerRunning, disp,
                   units, loggerVars, route, unitHist, startup>>

\* line 151: xQueueSend(xLoggerQueue, buffer, 10 ms), the status is not read
Fmt_Send ==
    /\ fmt.pc = "F151"
    /\ queues' = QueueAfterSend(QLogger, LogRecord(fmt.level, "F151"))
    /\ fmt' = FmtAt("idle", fmt.level, fmt.msgLen)
    /\ UNCHANGED <<genVars, genHist, handles, schedulerRunning, disp,
                   units, loggerVars, route, unitHist, startup>>

(***************************************************************************)
(* Start-up (dispatcher.c, logging.c, police.c, ambulance.c, fire_dept.c)  *)
(***************************************************************************)
pdPASS == "pdPASS"
pdFAIL == "pdFAIL"

\* a start-up that initializes the event generator before the logger
StartupSteps_Mut ==
    <<"CreateQueuesAndSemaphores", "EventGenerator_Init", "Logger_Init",
      "Dispatcher_Init", "Police_Init", "Ambulance_Init", "FireDept_Init",
      "vTaskStartScheduler", "running">>

\* the calls of the start-up sequence, in order
StartupSteps ==
    <<"CreateQueuesAndSemaphores", "Logger_Init", "EventGenerator_Init",
      "Dispatcher_Init", "Police_Init", "Ambulance_Init", "FireDept_Init",
      "vTaskStartScheduler", "running">>

\* the call that follows pc
StepAfter(pc) ==
    StartupSteps[(CHOOSE i \in 1..Len(StartupSteps) : StartupSteps[i] = pc) + 1]

\* Error_Handler(): the application's handler stops the system
Error_Handler == "halted"

\* the objects CreateQueuesAndSemaphores creates, in order
CreationOrder == <<QDispatcher, QAmbulance, QPolice, QFireDept, UartMutex>>

StartupAt(pc, request) ==
    [pc |-> pc, request |-> request,
     result |-> [q \in DeptQueues |-> "none"],
     created |-> [q \in DeptQueues |-> 0],
     createFailed |-> [q \in DeptQueues |-> FALSE],
     logCalls |-> 0, failed |-> {},
     failAt |-> [q \in DeptQueues |-> 0],
     called |-> <<>>]

\* lines 51-93: the k-th creation fails (none when k = 0). A queue that
\* cannot be created goes to ErrorHandler: LogError and Error_Handler; the
\* mutex to Error_Handler alone.
CreateQueuesAndSemaphores ==
    /\ startup.pc = "CreateQueuesAndSemaphores"
    /\ \E k \in 0..Len(CreationOrder) :
          LET n == IF k = 0 THEN Len(CreationOrder) ELSE k - 1
              logs == k # 0 /\ CreationOrder[k] # UartMutex
          IN  /\ handles' = handles \cup {CreationOrder[i] : i \in 1..n}
              /\ queues' = IF logs
                           THEN Project_Log(LOG_LEVEL_ERROR, "E44")
                           ELSE queues
              /\ startup' = [startup EXCEPT
                    !.pc = IF k = 0 THEN StepAfter(@) ELSE Error_Handler,
                    !.logCalls = IF logs THEN @ + 1 ELSE @,
                    !.failed = IF k = 0 THEN @ ELSE @ \cup {startup.pc},
                    !.called = Append(@, startup.pc)]
    /\ UNCHANGED <<genVars, genHist, schedulerRunning, disp, units,
                   loggerVars, route, unitHist, fmt>>

\* logging.c lines 42-71, and InitializeModules lines 107-112
Logger_Init ==
    /\ startup.pc = "Logger_Init"
    /\ \E queueOk \in BOOLEAN, taskOk \in BOOLEAN :
          /\ handles' = IF queueOk THEN handles \cup {QLogger} ELSE handles
          /\ startup' = [startup EXCEPT
                !.pc = IF queueOk /\ taskOk THEN StepAfter(@) ELSE Error_Handler,
                !.failed = IF queueOk /\ taskOk THEN @ ELSE @ \cup {startup.pc},
                !.called = Append(@, startup.pc)]
    /\ UNCHANGED <<genVars, genHist, queues, schedulerRunning, disp, units,
                   loggerVars, route, unitHist, fmt>>

\* event_generator.c lines 44-79, and InitializeModules lines 118-123
EventGenerator_Init ==
    /\ startup.pc = "EventGenerator_Init"
    /\ \E timerOk \in BOOLEAN :
          IF QDispatcher \in handles
          THEN /\ ticksUntilNextEvent' = MIN_EVENT_DELAY_TICKS
               /\ currentTickCount' = 0
               /\ timerStarted' = timerOk
               /\ startup' = [startup EXCEPT
                     !.pc = IF timerOk THEN StepAfter(@) ELSE Error_Handler,
                     !.called = Append(@, startup.pc)]
          ELSE /\ UNCHANGED genVars
               /\ startup' = [startup EXCEPT
                     !.pc = Error_Handler,
                     !.called = Append(@, startup.pc)]
    /\ UNCHANGED <<genHist, queues, handles, schedulerRunning, disp, units,
                   loggerVars, route, unitHist, fmt>>

\* dispatcher.c lines 175-199, and InitializeModules lines 129-134
Dispatcher_Init ==
    /\ startup.pc = "Dispatcher_Init"
    /\ \E taskOk \in BOOLEAN :
          startup' = [startup EXCEPT
              !.pc = IF taskOk THEN StepAfter(@) ELSE Error_Handler,
              !.failed = IF taskOk THEN @ ELSE @ \cup {startup.pc},
              !.called = Append(@, startup.pc)]
    /\ UNCHANGED <<genVars, genHist, queues, handles, schedulerRunning, disp,
                   units, loggerVars, route, unitHist, fmt>>

\* the department each init function serves
InitDept(pc) ==
    CASE pc = "Police_Init" -> QPolice
      [] pc = "Ambulance_Init" -> QAmbulance
      [] pc = "FireDept_Init" -> QFireDept

\* the for loop of Police_Init, Ambulance_Init and FireDept_Init from
\* iteration i, the failAt-th xTaskCreate failing (none when failAt = 0):
\* the tasks created and the value returned
RECURSIVE CreateUnits(_, _, _, _)
CreateUnits(i, numUnits, xReturned, failAt) ==
    IF i >= numUnits
    THEN [created |-> i, xReturned |-> xReturned, createFailed |-> FALSE]
    ELSE IF failAt = i + 1
         THEN [created |-> i, xReturned |-> pdFAIL, createFailed |-> TRUE]
         ELSE CreateUnits(i + 1, numUnits, pdPASS, failAt)

\* a department init without the test of its queue handle
DeptInit_NoCheck(q, numUnits, failAt) ==
    LET clamp == numUnits > MaxUnitsOf(q)
        n == IF clamp THEN MaxUnitsOf(q) ELSE numUnits
    IN  CreateUnits(0, n, IF clamp THEN pdFAIL ELSE pdPASS, failAt)

\* a department init that deletes the units it created when a creation fails
DeptInit_Rollback(q, numUnits, failAt) ==
    LET clamp == numUnits > MaxUnitsOf(q)
        n == IF clamp THEN MaxUnitsOf(q) ELSE numUnits
        out == CreateUnits(0, n, IF clamp THEN pdFAIL ELSE pdPASS, failAt)
    IN  IF q \notin handles
        THEN [created |-> 0, xReturned |-> pdFAIL, createFailed |-> FALSE]
        ELSE IF out.createFailed
             THEN [created |-> 0, xReturned |-> pdFAIL, createFailed |-> TRUE]
             ELSE out

\* a department init that goes on creating units after a failed xTaskCreate
DeptInit_Mut(q, numUnits, failAt) ==
    LET clamp == numUnits > MaxUnitsOf(q)
        n == IF clamp THEN MaxUnitsOf(q) ELSE numUnits
        out == CreateUnits(0, n, pdPASS, failAt)
    IN  IF q \notin handles
        THEN [created |-> 0, xReturned |-> pdFAIL, createFailed |-> FALSE]
        ELSE IF out.createFailed
             THEN [created |-> n - 1, xReturned |-> pdFAIL, createFailed |-> TRUE]
             ELSE out

\* Police_Init(numUnits), Ambulance_Init(numUnits), FireDept_Init(numUnits)
\* for department q
DeptInit(q, numUnits, failAt) ==
    LET clamp == numUnits > MaxUnitsOf(q)
        n == IF clamp THEN MaxUnitsOf(q) ELSE numUnits
        xReturned == IF clamp THEN pdFAIL ELSE pdPASS
    IN  IF q \notin handles
        THEN [created |-> 0, xReturned |-> pdFAIL, createFailed |-> FALSE]
        ELSE CreateUnits(0, n, xReturned, failAt)

\* InitializeModules lines 140-170: one department init; its failure is
\* reported with printf and the start-up goes on
Department_Init ==
    /\ startup.pc \in {"Police_Init", "Ambulance_Init", "FireDept_Init"}
    /\ LET q == InitDept(startup.pc)
       IN  \E failAt \in 0..MaxUnitsOf(q) :
             LET out == DeptInit(q, startup.request[q], failAt)
                 new == {<<q, i>> : i \in 1..out.created}
             IN  /\ units' = [u \in DOMAIN units \cup new |->
                                IF u \in DOMAIN units THEN units[u]
                                ELSE UnitAt("R58", NoEvent, 0)]
                 /\ startup' = [startup EXCEPT
                       !.pc = StepAfter(@),
                       !.result[q] = out.xReturned,
                       !.created[q] = out.created,
                       !.createFailed[q] = out.createFailed,
                       !.failed = IF out.createFailed
                                  THEN @ \cup {startup.pc} ELSE @,
                       !.failAt[q] = IF out.createFailed THEN failAt ELSE 0,
                       !.called = Append(@, startup.pc)]
    /\ UNCHANGED <<genVars, genHist, queues, handles, schedulerRunning, disp,
                   loggerVars, route, unitHist, fmt>>

\* vTaskStartScheduler(): the scheduler runs from here on
StartScheduler ==
    /\ startup.pc = "vTaskStartScheduler"
    /\ schedulerRunning' = TRUE
    /\ startup' = [startup EXCEPT !.pc = StepAfter(@)]
    /\ UNCHANGED <<genVars, genHist, queues, handles, disp, units, loggerVars,
                   route, unitHist, fmt>>

(***************************************************************************)
(* Initial states                                                          *)
(***************************************************************************)
EventCodes == {EVENT_CODE_POLICE, EVENT_CODE_AMBULANCE, EVENT_CODE_FIRE_DEPT}

\* the code of the events a department queue holds at the start
DeptCode(q) ==
    CASE q = QPolice -> EVENT_CODE_POLICE
      [] q = QAmbulance -> EVENT_CODE_AMBULANCE
      [] q = QFireDept -> EVENT_CODE_FIRE_DEPT

\* the first identity used in each queue at the start
IdOffset(q) ==
    CASE q = QDispatcher -> 0
      [] q = QPolice -> DISPATCHER_QUEUE_LENGTH
      [] q = QAmbulance -> DISPATCHER_QUEUE_LENGTH + POLICE_DEPT_QUEUE_LENGTH
      [] q = QFireDept -> DISPATCHER_QUEUE_LENGTH + POLICE_DEPT_QUEUE_LENGTH
                             + AMBULANCE_DEPT_QUEUE_LENGTH

\* n events of its own kind waiting in department queue q
DeptBacklog(q, n) ==
    [i \in 1..n |-> EmergencyEvent(DeptCode(q), IdOffset(q) + i)]

\* events of the given codes waiting in the dispatcher queue
DispatcherBacklog(codes) ==
    [i \in 1..Len(codes) |-> EmergencyEvent(codes[i], i)]

\* the first n(q) units of each department q, at position pc of their task
UnitsStarted(n, pc) ==
    [u \in {v \in UnitIds : v[2] <= n[v[1]]} |-> UnitAt(pc, NoEvent, 0)]

\* the last record the logger has written out when the units are at upc: the
\* start-up message of a unit once the units wait in xQueueReceive
LastWritten(upc) ==
    IF upc = "R64" THEN LogRecord(LOG_LEVEL_INFO, "R58") ELSE NoRecord

\* The system after start-up (every queue and the mutex created, the timer
\* and the scheduler started), with the given backlog in the event queues, the
\* given units at upc, the generator count ticks into its first interval and
\* the dispatcher task at dpc.
StartedAfter(gen, backlog, unitCount, count, dpc, upc) ==
    /\ ticksUntilNextEvent = InitialTicksUntilNextEvent
    /\ currentTickCount = count
    /\ timerStarted = TRUE
    /\ queues = [q \in QueueNames |->
                    IF q \in DOMAIN backlog THEN backlog[q] ELSE <<>>]
    /\ handles = QueueNames \cup {UartMutex}
    /\ schedulerRunning = TRUE
    /\ disp = DispAt(dpc, NoEvent, DispLocals)
    /\ units = UnitsStarted(unitCount, upc)
    /\ logger = LoggerAt("G174", NoRecord)
    /\ xUartMutex = "free"
    /\ uartOut = LastWritten(upc)
    /\ generated = gen
    /\ sinceLast = count
    /\ firstPending = (\A q \in EventQueues : backlog[q] = <<>>)
    /\ firstDelta = 0
    /\ lastDelta = 0
    /\ lastIsr = [event |-> NoEvent, accepted |-> FALSE, wasFull |-> FALSE,
                  rngOk |-> TRUE, delayOk |-> TRUE, tick |-> 0]
    /\ route = RouteOf(NoEvent)
    /\ received = {}
    /\ recvTotal = 0
    /\ startup = [StartupAt("running", [q \in DeptQueues |-> MaxUnitsOf(q)])
                   EXCEPT !.created = unitCount,
                          !.createFailed =
                              [q \in DeptQueues |-> unitCount[q] < MaxUnitsOf(q)],
                          !.failed =
                              {pc \in {"Police_Init", "Ambulance_Init",
                                       "FireDept_Init"} :
                                  unitCount[InitDept(pc)] < MaxUnitsOf(InitDept(pc))},
                          !.failAt =
                              [q \in DeptQueues |->
                                  IF unitCount[q] < MaxUnitsOf(q)
                                  THEN unitCount[q] + 1 ELSE 0],
                          !.result =
                              [q \in DeptQueues |->
                                  IF unitCount[q] < MaxUnitsOf(q)
                                  THEN pdFAIL ELSE pdPASS]]

\* the same with no event generated yet
Started(backlog, unitCount, count, dpc, upc) ==
    StartedAfter(0, backlog, unitCount, count, dpc, upc)

\* backlog lengths of a queue at the start: empty, one slot left, full
BacklogLengths(q) == {0, QueueLength(q) - 1, QueueLength(q)}

\* sequences of at most n event codes
RECURSIVE CodeSeqs(_)
CodeSeqs(n) ==
    IF n = 0 THEN {<<>>}
    ELSE LET shorter == CodeSeqs(n - 1)
         IN  shorter \cup {Append(s, c) : s \in {t \in shorter : Len(t) = n - 1},
                                          c \in EventCodes}

Min(a, b) == IF a < b THEN a ELSE b
NoUnits == [q \in DeptQueues |-> 0]

\* Generator alone: the state EventGenerator_Init leaves, or a later state at
\* the start of an interval with the dispatcher queue (nearly) full
InitGen ==
    \E n \in BacklogLengths(QDispatcher) :
        /\ Started([q \in EventQueues |->
                       IF q = QDispatcher
                       THEN DispatcherBacklog([i \in 1..n |-> (i % 3) + 1])
                       ELSE <<>>],
                   NoUnits, 0, "L209", "R58")
        /\ fmt = FmtIdle

\* The tasks: events waiting in the dispatcher queue, a backlog in each
\* department queue, and no unit or one unit of one department
Init ==
    \E codes \in CodeSeqs(MaxInitDispatch),
       np \in BacklogLengths(QPolice),
       na \in {0, QueueLength(QAmbulance)},
       nf \in {0, QueueLength(QFireDept)},
       unitCount \in [DeptQueues -> 0..1] :
        /\ unitCount[QPolice] + unitCount[QAmbulance] + unitCount[QFireDept] <= 1
        /\ Started([q \in EventQueues |->
                       CASE q = QDispatcher -> DispatcherBacklog(codes)
                         [] q = QPolice -> DeptBacklog(q, np)
                         [] q = QAmbulance -> DeptBacklog(q, na)
                         [] q = QFireDept -> DeptBacklog(q, nf)],
                   unitCount, 0, "L209", "R58")
        /\ fmt = FmtIdle

\* A department pool: a backlog in one department queue, the units of that
\* department waiting in xQueueReceive, events of that department waiting in
\* the dispatcher queue, and the start-up messages already written out
InitUnits ==
    \E d \in DeptQueues :
      \E n \in BacklogLengths(d), m \in 0..MaxInitDispatch :
        /\ Started([q \in EventQueues |->
                       CASE q = QDispatcher ->
                               DispatcherBacklog([i \in 1..m |-> DeptCode(d)])
                         [] q = d -> DeptBacklog(q, n)
                         [] OTHER -> <<>>],
                   [q \in DeptQueues |->
                       IF q = d THEN Min(MaxPoolUnits, MaxUnitsOf(d)) ELSE 0],
                   0, "L214", "R64")
        /\ fmt = FmtIdle

\* Before main calls CreateQueuesAndSemaphores: nothing is created, the
\* statics have their initializers; each department init will be called with
\* a unit count up to MaxOverRequest above the configured maximum
InitBoot ==
    /\ ticksUntilNextEvent = InitialTicksUntilNextEvent
    /\ currentTickCount = 0
    /\ timerStarted = FALSE
    /\ queues = [q \in QueueNames |-> <<>>]
    /\ handles = {}
    /\ schedulerRunning = FALSE
    /\ disp = DispAt("L209", NoEvent, DispLocals)
    /\ units = UnitsStarted(NoUnits, "R58")
    /\ logger = LoggerAt("G174", NoRecord)
    /\ xUartMutex = "free"
    /\ uartOut = NoRecord
    /\ generated = 0
    /\ sinceLast = 0
    /\ firstPending = TRUE
    /\ firstDelta = 0
    /\ lastDelta = 0
    /\ lastIsr = [event |-> NoEvent, accepted |-> FALSE, wasFull |-> FALSE,
                  rngOk |-> TRUE, delayOk |-> TRUE, tick |-> 0]
    /\ route = RouteOf(NoEvent)
    /\ received = {}
    /\ recvTotal = 0
    /\ \E request \in [DeptQueues -> 0..(RESOURCES_AMBULANCE + MaxOverRequest)] :
          /\ \A q \in DeptQueues : request[q] <= MaxUnitsOf(q) + MaxOverRequest
          /\ startup = StartupAt("CreateQueuesAndSemaphores", request)
    /\ fmt = FmtIdle

\* One call of Project_Log with a formatted message of any length up to
\* MaxOverLength characters more than the buffer holds
InitFmt ==
    \E level \in LOG_LEVEL_DEBUG..LOG_LEVEL_ERROR,
       msgLen \in 0..(LOGGER_MSG_MAX_SIZE + MaxOverLength) :
        /\ Started([q \in EventQueues |-> <<>>], NoUnits, 0, "L214", "R64")
        /\ fmt = FmtAt("F99", level, msgLen)

\* Calls of the logging macros of every level while the system runs, the
\* log queue with one slot left or full
InitLog ==
    \E nl \in {LOGGER_QUEUE_LENGTH - 1, LOGGER_QUEUE_LENGTH} :
        /\ Started([q \in QueueNames |->
                       IF q = QLogger
                       THEN [i \in 1..nl |-> LogRecord(LOG_LEVEL_INFO, "R77")]
                       ELSE <<>>],
                   NoUnits, 0, "L214", "R64")
        /\ fmt = FmtIdle

\* records of the units waiting in the log queue
LogBacklog(n) == [i \in 1..n |-> LogRecord(LOG_LEVEL_INFO, "R77")]

\* Saturation: the Ambulance queue is full, the Police queue full or nearly,
\* the log queue full, nearly full or empty, and no unit and no logger takes
\* anything out; events wait in the dispatcher queue
InitStall ==
    \E codes \in CodeSeqs(MaxStallEvents),
       np \in {QueueLength(QPolice) - 1, QueueLength(QPolice)},
       nf \in {0, QueueLength(QFireDept)},
       nl \in BacklogLengths(QLogger) :
        /\ Started([q \in QueueNames |->
                       CASE q = QDispatcher -> DispatcherBacklog(codes)
                         [] q = QPolice -> DeptBacklog(q, np)
                         [] q = QAmbulance -> DeptBacklog(q, QueueLength(q))
                         [] q = QFireDept -> DeptBacklog(q, nf)
                         [] q = QLogger -> LogBacklog(nl)],
                   NoUnits, 0, "L214", "R64")
        /\ fmt = FmtIdle

\* xUartMutex is declared extern (dispatcher.c line 30): code outside the
\* logging module can take it and give it back. The logger meets it as a
\* holder that is not the logger.
Other_Take ==
    /\ UartMutex \in handles
    /\ xUartMutex = "free"
    /\ xUartMutex' = "Other"
    /\ UNCHANGED <<auxVars, genVars, genHist, queues, handles, schedulerRunning,
                   disp, units, logger, uartOut, route, unitHist>>

Other_Give ==
    /\ xUartMutex = "Other"
    /\ xUartMutex' = "free"
    /\ UNCHANGED <<auxVars, genVars, genHist, queues, handles, schedulerRunning,
                   disp, units, logger, uartOut, route, unitHist>>

\* the records of a backlog of n: one of each unit message, in order
UnitSites == <<"R58", "R63", "R70", "R74", "R77">>
DistinctBacklog(n) ==
    [i \in 1..n |-> LogRecord(IF UnitSites[i] \in {"R63", "R74"}
                              THEN LOG_LEVEL_DEBUG ELSE LOG_LEVEL_INFO,
                              UnitSites[i])]

\* The logger and a contended mutex: records waiting in the log queue, every
\* other task blocked, the mutex free or held outside the logger
InitMutex ==
    \E n \in 0..MaxLogBacklog, holder \in {"free", "Other"} :
        /\ ticksUntilNextEvent = InitialTicksUntilNextEvent
        /\ currentTickCount = 0
        /\ timerStarted = TRUE
        /\ queues = [q \in QueueNames |->
                        IF q = QLogger THEN DistinctBacklog(n) ELSE <<>>]
        /\ handles = QueueNames \cup {UartMutex}
        /\ schedulerRunning = TRUE
        /\ disp = DispAt("L214", NoEvent, DispLocals)
        /\ units = UnitsStarted(NoUnits, "R64")
        /\ logger = LoggerAt("G174", NoRecord)
        /\ xUartMutex = holder
        /\ uartOut = NoRecord
        /\ generated = 0
        /\ sinceLast = 0
        /\ firstPending = TRUE
        /\ firstDelta = 0
        /\ lastDelta = 0
        /\ lastIsr = [event |-> NoEvent, accepted |-> FALSE, wasFull |-> FALSE,
                      rngOk |-> TRUE, delayOk |-> TRUE, tick |-> 0]
        /\ route = RouteOf(NoEvent)
        /\ received = {}
        /\ recvTotal = 0
        /\ startup = [StartupAt("running", [q \in DeptQueues |-> 0])
                        EXCEPT !.result = [q \in DeptQueues |-> pdPASS]]
        /\ fmt = FmtIdle

\* xPoliceQueue is declared extern (dispatcher.c line 27): a sender that is
\* not the router puts an event in the Police queue while it has room
Other_Send ==
    /\ QPolice \in handles
    /\ uxQueueSpacesAvailable(QPolice) > 0
    /\ queues' = QueueAfterSend(QPolice,
                     EmergencyEvent(EVENT_CODE_POLICE,
                                    IdOffset(QPolice) + Len(queues[QPolice]) + 1))
    /\ UNCHANGED <<auxVars, genVars, genHist, handles, schedulerRunning, disp,
                   units, loggerVars, route, unitHist>>

\* The redirect branch with a contended Police queue: Ambulance events
\* waiting in the dispatcher queue, the Ambulance queue full, one slot left
\* in the Police queue, no Ambulance unit or one, the log queue nearly full
\* or full
InitRedirect ==
    \E m \in 1..(MaxInitDispatch + 1), n \in 0..1,
       nl \in {LOGGER_QUEUE_LENGTH - 1, LOGGER_QUEUE_LENGTH} :
        /\ Started([q \in QueueNames |->
                       CASE q = QDispatcher ->
                               DispatcherBacklog([i \in 1..m |-> EVENT_CODE_AMBULANCE])
                         [] q = QPolice -> DeptBacklog(q, QueueLength(q) - 1)
                         [] q = QAmbulance -> DeptBacklog(q, QueueLength(q))
                         [] q = QFireDept -> <<>>
                         [] q = QLogger -> LogBacklog(nl)],
                   [q \in DeptQueues |-> IF q = QAmbulance THEN n ELSE 0],
                   0, "L214", "R64")
        /\ fmt = FmtIdle

\* Units of one department idle in xQueueReceive (as many as the smallest
\* pool has, at most), events of the department waiting in its queue or still
\* in the dispatcher queue, the log queue full
InitIdle ==
    \E d \in DeptQueues :
      \E n \in BacklogLengths(d), m \in 0..MaxInitDispatch :
        /\ Started([q \in QueueNames |->
                       CASE q = QDispatcher ->
                               DispatcherBacklog([i \in 1..m |-> DeptCode(d)])
                         [] q = d -> DeptBacklog(q, n)
                         [] q = QLogger -> LogBacklog(LOGGER_QUEUE_LENGTH)
                         [] OTHER -> <<>>],
                   [q \in DeptQueues |->
                       IF q = d THEN Min(MaxPoolUnits, RESOURCES_FIRE_DEPT)
                                ELSE 0],
                   0, "L214", "R64")
        /\ fmt = FmtIdle

\* The whole pipeline shortly before the last event of the run is due: Fire
\* events fill the dispatcher queue or leave one slot, the Ambulance and Fire
\* queues are full, the Police queue has one slot left, there is no unit or
\* one Police unit, the log queue is full
InitPipe ==
    \E n \in {DISPATCHER_QUEUE_LENGTH - 1, DISPATCHER_QUEUE_LENGTH},
       k \in 0..1, early \in 1..2 :
        /\ StartedAfter(MaxGenEvents - 1,
                   [q \in QueueNames |->
                       CASE q = QDispatcher ->
                               DispatcherBacklog([i \in 1..n |-> EVENT_CODE_FIRE_DEPT])
                         [] q = QPolice -> DeptBacklog(q, QueueLength(q) - 1)
                         [] q = QLogger -> LogBacklog(LOGGER_QUEUE_LENGTH)
                         [] OTHER -> DeptBacklog(q, QueueLength(q))],
                   [q \in DeptQueues |-> IF q = QPolice THEN k ELSE 0],
                   InitialTicksUntilNextEvent - early, "L214", "R64")
        /\ fmt = FmtIdle

\* InitializeModules about to call Police_Init: the queues, the logger, the
\* event generator and the dispatcher are set up, the timer runs, and its
\* handler has already put events in the dispatcher queue (a few of any
\* kind, or more Ambulance events than the Ambulance queue holds). Police_Init is
\* called for its whole pool, the two inits after it for one unit each.
InitPartial ==
    /\ ticksUntilNextEvent = InitialTicksUntilNextEvent
    /\ currentTickCount = 0
    /\ timerStarted = TRUE
    /\ \E codes \in CodeSeqs(MaxInitDispatch)
                       \cup {[i \in 1..(AMBULANCE_DEPT_QUEUE_LENGTH + 1) |->
                                 EVENT_CODE_AMBULANCE]} :
          queues = [q \in QueueNames |->
                       IF q = QDispatcher THEN DispatcherBacklog(codes) ELSE <<>>]
    /\ handles = QueueNames \cup {UartMutex}
    /\ schedulerRunning = FALSE
    /\ disp = DispAt("L209", NoEvent, DispLocals)
    /\ units = UnitsStarted(NoUnits, "R58")
    /\ logger = LoggerAt("G174", NoRecord)
    /\ xUartMutex = "free"
    /\ uartOut = NoRecord
    /\ generated = 0
    /\ sinceLast = 0
    /\ firstPending = FALSE
    /\ firstDelta = 0
    /\ lastDelta = 0
    /\ lastIsr = [event |-> NoEvent, accepted |-> FALSE, wasFull |-> FALSE,
                  rngOk |-> TRUE, delayOk |-> TRUE, tick |-> 0]
    /\ route = RouteOf(NoEvent)
    /\ received = {}
    /\ recvTotal = 0
    /\ startup = [StartupAt("Police_Init",
                             [q \in DeptQueues |->
                                 IF q = QPolice THEN RESOURCES_POLICE ELSE 1])
                    EXCEPT !.called = <<"CreateQueuesAndSemaphores", "Logger_Init",
                                        "EventGenerator_Init", "Dispatcher_Init">>]
    /\ fmt = FmtIdle

\* The Police department with two idle units and an empty queue, Police
\* events waiting in the dispatcher queue, the Ambulance queue
\* full (an Ambulance event will be redirected to the Police queue), the
\* last event of the run due on the next tick of TIM2, the log queue full
InitOrder ==
    \E m \in 1..MaxInitDispatch :
        /\ StartedAfter(MaxGenEvents - 1,
                   [q \in QueueNames |->
                       CASE q = QDispatcher ->
                               DispatcherBacklog([i \in 1..m |-> EVENT_CODE_POLICE])
                         [] q = QAmbulance -> DeptBacklog(q, QueueLength(q))
                         [] q = QLogger -> LogBacklog(LOGGER_QUEUE_LENGTH)
                         [] OTHER -> <<>>],
                   [q \in DeptQueues |->
                       IF q = QPolice
                       THEN Min(MaxPoolUnits, RESOURCES_FIRE_DEPT) ELSE 0],
                   InitialTicksUntilNextEvent - 1, "L214", "R64")
        /\ fmt = FmtIdle

\* The logger and the tasks that log: the Fire units about to write their
\* start-up message, as many events in the Fire queue as the units will
\* serve at most, the log queue empty or holding one record, the mutex free
InitLogger ==
    \E n \in 0..MaxServed, nl \in 0..1 :
        /\ Started([q \in QueueNames |->
                       CASE q = QFireDept -> DeptBacklog(q, n)
                         [] q = QLogger -> LogBacklog(nl)
                         [] OTHER -> <<>>],
                   [q \in DeptQueues |->
                       IF q = QFireDept
                       THEN Min(MaxPoolUnits, RESOURCES_FIRE_DEPT) ELSE 0],
                   0, "L214", "R58")
        /\ fmt = FmtIdle

\* the values a uint8_t eventCode is tried with: the three codes, the one
\* below and the one above
CodeBytes == (EVENT_CODE_POLICE - 1)..(EVENT_CODE_FIRE_DEPT + 1)

\* the events tried in the dispatcher queue at position i: an event of any
\* code byte, or an event as the generator builds it from a draw of the RNG
\* (numbered above IdBase, like every event of the generator)
EventsTried(i) ==
    {EmergencyEvent(c, i) : c \in CodeBytes}
        \cup {EmergencyEvent(GeneratedEventCode(rc), IdBase + i) :
                 rc \in HAL_RNG_GenerateRandomNumber}

\* The router alone, such events waiting in the dispatcher queue, the
\* department queues empty or full, the log queue nearly full or full
InitCodes ==
    \E m \in 0..(MaxInitDispatch + 1) :
      \E backlog \in [1..m -> UNION {EventsTried(i) : i \in 1..m}],
         full \in BOOLEAN,
         nl \in {LOGGER_QUEUE_LENGTH - 1, LOGGER_QUEUE_LENGTH} :
        /\ \A i \in 1..m : backlog[i] \in EventsTried(i)
        /\ Started([q \in QueueNames |->
                       CASE q = QDispatcher -> backlog
                         [] q = QLogger -> LogBacklog(nl)
                         [] OTHER -> DeptBacklog(q, IF full THEN QueueLength(q)
                                                       ELSE 0)],
                   NoUnits, 0, "L214", "R64")
        /\ fmt = FmtIdle

\* The init functions called one after the other as InitializeModules calls
\* them, from EventGenerator_Init on, whatever queues exist at that time
InitCalls ==
    /\ ticksUntilNextEvent = InitialTicksUntilNextEvent
    /\ currentTickCount = 0
    /\ timerStarted = FALSE
    /\ queues = [q \in QueueNames |-> <<>>]
    /\ handles \in SUBSET EventQueues
    /\ schedulerRunning = FALSE
    /\ disp = DispAt("L209", NoEvent, DispLocals)
    /\ units = UnitsStarted(NoUnits, "R58")
    /\ logger = LoggerAt("G174", NoRecord)
    /\ xUartMutex = "free"
    /\ uartOut = NoRecord
    /\ generated = 0
    /\ sinceLast = 0
    /\ firstPending = TRUE
    /\ firstDelta = 0
    /\ lastDelta = 0
    /\ lastIsr = [event |-> NoEvent, accepted |-> FALSE, wasFull |-> FALSE,
                  rngOk |-> TRUE, delayOk |-> TRUE, tick |-> 0]
    /\ route = RouteOf(NoEvent)
    /\ received = {}
    /\ recvTotal = 0
    /\ \E request \in [DeptQueues -> 0..(RESOURCES_AMBULANCE + MaxOverRequest)] :
          /\ \A q \in DeptQueues : request[q] <= MaxUnitsOf(q) + MaxOverRequest
          /\ startup = StartupAt("EventGenerator_Init", request)
    /\ fmt = FmtIdle

(***************************************************************************)
(* Specifications                                                          *)
(***************************************************************************)
TimerTick == generated < MaxGenEvents /\ HAL_TIM_PeriodElapsedCallback

UnitStep ==
    \E u \in DOMAIN units :
        \/ Unit_Log(u)
        \/ Unit_Receive(u)
        \/ Unit_DrawDuration(u)
        \/ Unit_Delay(u)
        \/ Unit_DelayElapsed(u)

LoggerStep ==
    \/ Logger_Receive
    \/ Logger_TakeMutex
    \/ Logger_Transmit
    \/ Logger_Give

DispatcherStep ==
    \/ Dispatcher_Log
    \/ Dispatcher_Receive
    \/ Dispatcher_CheckPrimary
    \/ Dispatcher_CheckAlternative
    \/ Dispatcher_Send

\* the tasks under the scheduler
Next == DispatcherStep \/ UnitStep \/ LoggerStep

Spec == Init /\ [][Next]_vars

\* the timer interrupt alone
NextGen == TimerTick

SpecGen == InitGen /\ [][NextGen]_vars

\* the tasks, with the units of one department
SpecUnits == InitUnits /\ [][Next]_vars

\* the start-up sequence
NextInit ==
    \/ CreateQueuesAndSemaphores
    \/ Logger_Init
    \/ EventGenerator_Init
    \/ Dispatcher_Init
    \/ Department_Init
    \/ StartScheduler

SpecInit == InitBoot /\ [][NextInit]_vars

\* the init functions of the modules that need a queue
NextCalls ==
    \/ EventGenerator_Init
    \/ Dispatcher_Init
    \/ Department_Init

SpecCalls == InitCalls /\ [][NextCalls]_vars

\* the router and the units, and a second sender to the Police queue
NextRedirect ==
    \/ DispatcherStep
    \/ UnitStep
    \/ Other_Send

SpecRedirect == InitRedirect /\ [][NextRedirect]_vars

\* the router and the units with a second sender to the Police queue
NextBusy_TwoSenders == DispatcherStep \/ UnitStep \/ Other_Send

\* the router and the units, the log queue (nearly) full
NextBusy ==
    \/ DispatcherStep
    \/ UnitStep

SpecBusy == InitRedirect /\ [][NextBusy]_vars

\* The router and the units of one department, under the scheduling of the
\* kernel: the router runs whenever it is ready, and a unit that waits in
\* xQueueReceive is made ready by an item in its queue and then gets the
\* processor, whatever the other units do.  Nothing is assumed about the
\* time a service takes: the end of a delay is not a fair step.
SpecIdle ==
    /\ InitIdle
    /\ [][NextBusy]_vars
    /\ WF_vars(DispatcherStep)
    /\ \A u \in UnitIds : WF_vars(u \in DOMAIN units /\ Unit_Receive(u))

\* the router and events of every code
SpecCodes == InitCodes /\ [][DispatcherStep]_vars

\* the dispatcher task alone, scheduled whenever it can take a step: it has
\* the highest priority and none of its calls waits without a timeout except
\* the receive from the dispatcher queue
SpecStall == InitStall /\ [][DispatcherStep]_vars /\ WF_vars(DispatcherStep)

\* the logger with a contended mutex
NextMutex ==
    \/ LoggerStep
    \/ Other_Take
    \/ Other_Give

SpecMutex == InitMutex /\ [][NextMutex]_vars

\* the formatting steps of one call of Project_Log
NextFmt == Fmt_Message \/ Fmt_Assemble \/ Fmt_Terminate

SpecFmt == InitFmt /\ [][NextFmt]_vars

\* the timer interrupt, the router and the units
NextPipe == TimerTick \/ DispatcherStep \/ UnitStep

SpecPipe == InitPipe /\ [][NextPipe]_vars

SpecOrder == InitOrder /\ [][NextPipe]_vars

\* the department inits, the start of the scheduler, and the router and the
\* units once it runs
NextPartial == Department_Init \/ StartScheduler \/ DispatcherStep \/ UnitStep

SpecPartial == InitPartial /\ [][NextPartial]_vars

\* the units and the logger, and a task outside the logger that takes the
\* mutex
NextLogger_Contended == UnitStep \/ LoggerStep \/ Other_Take \/ Other_Give

\* the units, which log, and the logger
NextLogger == UnitStep \/ LoggerStep

\* The kernel runs a ready task of the highest priority: the units take
\* their steps, and the logger takes its steps when no unit is ready.
SpecLogger ==
    /\ InitLogger
    /\ [][NextLogger]_vars
    /\ WF_vars(UnitStep)
    /\ WF_vars(LoggerStep)

NextLog ==
    \/ \E level \in LOG_LEVEL_DEBUG..LOG_LEVEL_ERROR, msgLen \in 0..MaxOverLength :
          Log_Base(level, msgLen)
    \/ Fmt_Guard
    \/ Fmt_Message
    \/ Fmt_Assemble
    \/ Fmt_Terminate
    \/ Fmt_Send

SpecLog == InitLog /\ [][NextLog]_vars

(***************************************************************************)
(* Properties of the event generator (SpecGen)                             *)
(***************************************************************************)
EventDelays == MIN_EVENT_DELAY_TICKS..MAX_EVENT_DELAY_TICKS

\* C7: the number of timer ticks between two consecutive generated events,
\* accepted by the dispatcher queue or not, lies in
\* [MIN_EVENT_DELAY_TICKS, MAX_EVENT_DELAY_TICKS], and so does every interval
\* the handler draws, for every random value and on failure of the RNG.
C7_ConsecutiveDelta ==
    /\ ticksUntilNextEvent \in EventDelays
    /\ sinceLast < ticksUntilNextEvent
    /\ lastDelta # 0 => lastDelta \in EventDelays

\* two consecutive events MAX_EVENT_DELAY_TICKS ticks apart
C7_Witness == generated = 2 /\ lastDelta = MAX_EVENT_DELAY_TICKS

\* C8: after EventGenerator_Init no event is generated before the
\* MIN_EVENT_DELAY_TICKS-th timer tick, and the first event is generated on
\* exactly that tick.
C8_FirstEvent ==
    /\ firstPending => /\ generated = 0
                       /\ sinceLast < MIN_EVENT_DELAY_TICKS
                       /\ currentTickCount = sinceLast
    /\ firstDelta # 0 => firstDelta = MIN_EVENT_DELAY_TICKS

\* the first event after the initialisation has been generated
C8_Witness == generated = 1 /\ firstDelta = MIN_EVENT_DELAY_TICKS

\* C9: every generated event, and so every event in the dispatcher queue,
\* has code 1, 2 or 3, for every random value and on failure of the RNG.
C9_EventCode ==
    /\ lastIsr.event # NoEvent =>
          lastIsr.event.eventCode \in
              {EVENT_CODE_POLICE, EVENT_CODE_AMBULANCE, EVENT_CODE_FIRE_DEPT}
    /\ \A i \in 1..Len(queues[QDispatcher]) :
          queues[QDispatcher][i].eventCode \in
              {EVENT_CODE_POLICE, EVENT_CODE_AMBULANCE, EVENT_CODE_FIRE_DEPT}

\* an event generated while the RNG failed
C9_Witness == lastIsr.event # NoEvent /\ ~lastIsr.rngOk

\* C10: a tick that generates an event while the dispatcher queue is full
\* leaves the queue as it was (the event is discarded), and the handler
\* still draws the next interval and resets its tick counter to zero.
C10_FullQueueDiscard ==
    [][(generated' = generated + 1 /\ uxQueueSpacesAvailable(QDispatcher) = 0)
          => /\ queues' = queues
             /\ ~lastIsr'.accepted
             /\ currentTickCount' = 0
             /\ ticksUntilNextEvent' \in EventDelays]_vars

\* an event was generated with the dispatcher queue full and discarded
C10_Witness ==
    /\ lastIsr.event # NoEvent /\ lastIsr.wasFull /\ ~lastIsr.accepted
    /\ Len(queues[QDispatcher]) = DISPATCHER_QUEUE_LENGTH
    /\ currentTickCount = 0

(***************************************************************************)
(* Properties of the dispatcher task (Spec)                                *)
(***************************************************************************)
\* the sends of the current routing that returned pdPASS
OkSends == {i \in 1..Len(route.sends) : route.sends[i].ok}

\* the routing of the event last dequeued is over: the task is back at
\* xQueueReceive
Routed == route.ev # NoEvent /\ disp.pc = "L214"

\* the positions of department queue q that hold event ev
PositionsOf(q, ev) == {i \in 1..Len(queues[q]) : queues[q][i] = ev}

\* event ev is in department queue q or was taken from it by one of its units
Holds(q, ev) ==
    \/ PositionsOf(q, ev) # {}
    \/ \E u \in DOMAIN units : u[1] = q /\ <<ev.id, u>> \in received

LastLog == route.logs[Len(route.logs)]

\* the queues the router has read the free space of, and those it has sent to
Inspected == {route.checks[i].q : i \in 1..Len(route.checks)}
SentTo == {route.sends[i].q : i \in 1..Len(route.sends)}

\* C1: an event dequeued by the router is enqueued at most once, on one
\* department queue only; when its routing is over it is either on exactly
\* one department queue (or with a unit of it), or on none and the last
\* thing the router did for it is a log call: error level after a failed
\* send, warning level when nothing was sent.
C1_RoutedExactlyOnce ==
    /\ Cardinality(OkSends) <= 1
    /\ OkSends # {} => disp.pc = "L214" /\ Len(route.sends) \in OkSends
    /\ route.ev # NoEvent =>
         /\ Cardinality({q \in DeptQueues : Holds(q, route.ev)})
               = Cardinality(OkSends)
         /\ \A q \in DeptQueues : Cardinality(PositionsOf(q, route.ev)) <= 1
         /\ \A i \in OkSends : Holds(route.sends[i].q, route.ev)
    /\ (Routed /\ OkSends = {}) =>
         /\ route.logs # <<>>
         /\ LastLog.level =
               IF route.sends = <<>> THEN LOG_LEVEL_WARN ELSE LOG_LEVEL_ERROR

\* an event delivered after the router waited for a slot of its full queue
C1_Witness ==
    /\ Routed
    /\ route.checks # <<>> /\ route.checks[1].spaces = 0
    /\ route.sends = <<[q |-> route.checks[1].q, ok |-> TRUE, at |-> "L274"]>>
    /\ Holds(route.checks[1].q, route.ev)

\* the router found the Ambulance queue full and free slots in Police
AmbulanceFullPoliceFree ==
    /\ route.ev # NoEvent /\ route.ev.eventCode = EVENT_CODE_AMBULANCE
    /\ Len(route.checks) = 2
    /\ route.checks[1] = [q |-> QAmbulance, spaces |-> 0]
    /\ route.checks[2].q = QPolice /\ route.checks[2].spaces > 0

\* C2: an Ambulance event for which the router read no free slot in the
\* Ambulance queue and at least one in the Police queue is sent to the
\* Police queue only; the redirection log call is made for it, and the one
\* send puts it on the Police queue.
C2_Redirected ==
    AmbulanceFullPoliceFree =>
        /\ SentTo \subseteq {QPolice}
        /\ disp.pc # "L292" =>
              \E i \in 1..Len(route.logs) :
                  route.logs[i] = LogRecord(LOG_LEVEL_INFO, "L292")
        /\ disp.pc = "L214" =>
              /\ route.sends = <<[q |-> QPolice, ok |-> TRUE, at |-> "L294"]>>
              /\ Holds(QPolice, route.ev)
              /\ ~Holds(QAmbulance, route.ev)

\* a redirected Ambulance event on the Police queue
C2_Witness ==
    /\ AmbulanceFullPoliceFree /\ disp.pc = "L214"
    /\ PositionsOf(QPolice, route.ev) # {}

\* the router found both the Ambulance and the Police queue full
AmbulanceFullPoliceFull ==
    /\ route.ev # NoEvent /\ route.ev.eventCode = EVENT_CODE_AMBULANCE
    /\ Len(route.checks) = 2
    /\ route.checks[1] = [q |-> QAmbulance, spaces |-> 0]
    /\ route.checks[2] = [q |-> QPolice, spaces |-> 0]

\* C3: an Ambulance event for which the router read no free slot in either
\* queue gets one send on the Ambulance queue and none on the Police queue;
\* when that send times out the department queues are as they were before
\* it, the event is on none of them, and an error-level log call follows.
C3_BothFull ==
    [][/\ AmbulanceFullPoliceFull' =>
             /\ SentTo' \subseteq {QAmbulance}
             /\ Len(route.sends') <= 1
             /\ disp.pc' = "L214" => Len(route.sends') = 1
             /\ (disp.pc' = "L214" /\ OkSends' = {}) =>
                   /\ LastLog' = LogRecord(LOG_LEVEL_ERROR, "L314")
                   /\ \A q \in DeptQueues : ~Holds(q, route.ev)'
       /\ (AmbulanceFullPoliceFull /\ disp.pc = "L311" /\ disp.pc' = "L314") =>
             \A q \in DeptQueues : queues'[q] = queues[q]]_vars

\* an Ambulance event lost with both queues full
C3_Witness ==
    /\ AmbulanceFullPoliceFull /\ disp.pc = "L214"
    /\ route.sends = <<[q |-> QAmbulance, ok |-> FALSE, at |-> "L311"]>>

\* the department queue of a Police or Fire event
OwnQueue(ev) == IF ev.eventCode = EVENT_CODE_POLICE THEN QPolice ELSE QFireDept

\* C4: for a Police or Fire event the router reads the free space of, and
\* sends to, the queue of that department only; it makes one send, also
\* when that queue is full, and a send that times out is followed by an
\* error-level log call, the event being on no queue.
C4_NoAlternative ==
    (route.ev # NoEvent
       /\ route.ev.eventCode \in {EVENT_CODE_POLICE, EVENT_CODE_FIRE_DEPT}) =>
        /\ Inspected \subseteq {OwnQueue(route.ev)}
        /\ SentTo \subseteq {OwnQueue(route.ev)}
        /\ Len(route.checks) <= 1 /\ Len(route.sends) <= 1
        /\ disp.pc = "L214" =>
              /\ Len(route.checks) = 1 /\ Len(route.sends) = 1
              /\ ~route.sends[1].ok =>
                    /\ LastLog = LogRecord(LOG_LEVEL_ERROR, "L277")
                    /\ \A q \in DeptQueues : ~Holds(q, route.ev)

\* a Police event dropped after one timed-out send on the full Police queue
C4_Witness ==
    /\ Routed /\ route.ev.eventCode = EVENT_CODE_POLICE
    /\ route.checks = <<[q |-> QPolice, spaces |-> 0]>>
    /\ route.sends = <<[q |-> QPolice, ok |-> FALSE, at |-> "L274"]>>

(***************************************************************************)
(* Properties of the resource units (SpecUnits)                            *)
(***************************************************************************)
TaskDurations == MIN_TASK_DURATION_TICKS..MAX_TASK_DURATION_TICKS

\* the units that hold an event between its receipt and the end of its service
Serving(ev) == {u \in DOMAIN units : units[u].receivedEvent = ev}

\* C5: with several units on one department queue every receive takes an
\* event no unit has taken before: an event is received by one unit only, it
\* is no longer in the queue once received, and no two units serve the same
\* event.
C5_OneUnitPerEvent ==
    /\ Cardinality(received) = recvTotal
    /\ \A r1 \in received, r2 \in received : r1[1] = r2[1] => r1[2] = r2[2]
    /\ \A r \in received :
          \A i \in 1..Len(queues[r[2][1]]) : queues[r[2][1]][i].id # r[1]
    /\ \A u \in DOMAIN units :
          units[u].receivedEvent # NoEvent =>
              /\ Serving(units[u].receivedEvent) = {u}
              /\ <<units[u].receivedEvent.id, u>> \in received

\* two units of one department serve two events at the same time
C5_Witness ==
    \E u1 \in DOMAIN units, u2 \in DOMAIN units :
        /\ u1 # u2 /\ u1[1] = u2[1]
        /\ units[u1].receivedEvent # NoEvent
        /\ units[u2].receivedEvent # NoEvent
        /\ recvTotal = 2

\* C6: the duration a unit passes to vTaskDelay after receiving an event lies
\* in [MIN_TASK_DURATION_TICKS, MAX_TASK_DURATION_TICKS], whatever the RNG
\* returns and when the RNG fails.
C6_ServiceDuration ==
    \A u \in DOMAIN units :
        units[u].pc = "R75" =>
            /\ units[u].receivedEvent # NoEvent
            /\ units[u].taskDurationTicks \in TaskDurations

\* a unit about to suspend for MAX_TASK_DURATION_TICKS
C6_Witness ==
    \E u \in DOMAIN units :
        /\ units[u].pc = "R75"
        /\ units[u].taskDurationTicks = MAX_TASK_DURATION_TICKS

(***************************************************************************)
(* Properties of the start-up (SpecInit)                                   *)
(***************************************************************************)
\* the init of department q was called with more units than its maximum,
\* found its queue, and no task creation failed
ClampedInit(q) ==
    /\ startup.result[q] # "none"
    /\ startup.request[q] > MaxUnitsOf(q)
    /\ q \in handles
    /\ ~startup.createFailed[q]

\* C11: a department init called with more units than the department's
\* maximum, whose queue exists and whose task creations all succeed, creates
\* exactly the maximum number of units and returns pdFAIL.
C11_ClampReportsFailure ==
    \A q \in DeptQueues :
        ClampedInit(q) =>
            /\ startup.created[q] = MaxUnitsOf(q)
            /\ startup.result[q] = pdFAIL

\* Police_Init called with one unit too many has created RESOURCES_POLICE
\* units and returned
C11_Witness ==
    /\ ClampedInit(QPolice)
    /\ startup.created[QPolice] = RESOURCES_POLICE
    /\ \A i \in 1..RESOURCES_POLICE : <<QPolice, i>> \in DOMAIN units

(***************************************************************************)
(* Properties of the logging module                                        *)
(***************************************************************************)
\* C12 (SpecStall): a log call made while the log queue is full, with no
\* logger taking anything out, leaves every queue as it was (the record is
\* dropped) and the caller goes on with the statement after the call; and
\* every log call returns: the caller always gets to that statement.
C12_LogNeverBlocks ==
    /\ [][(disp.pc \in LogPcs /\ uxQueueSpacesAvailable(QLogger) = 0)
             => (queues' = queues /\ disp'.pc = AfterLog(disp.pc))]_vars
    /\ \A pc \in LogPcs : (disp.pc = pc) ~> (disp.pc = AfterLog(pc))

\* the router has dropped an event and its log calls found the log queue
\* full: the queue still holds the old records only
C12_Witness ==
    /\ Routed /\ route.logs # <<>>
    /\ queues[QLogger] = LogBacklog(LOGGER_QUEUE_LENGTH)

\* the cells of buffer[] itself
InBuffer == 0..(LOGGER_MSG_MAX_SIZE - 1)

\* the cells of buf that hold NUL
NulCells(buf) == {i \in BufferCells : buf[i] = "NUL"}

\* strlen(buf), for a buf that holds a NUL
StrLen(buf) == CHOOSE i \in NulCells(buf) : \A j \in NulCells(buf) : i <= j

\* C13 (SpecFmt): for every length of the formatted message, no cell
\* outside buffer[] is ever written, and the buffer handed to xQueueSend
\* holds a string of at most LOGGER_MSG_MAX_SIZE - 1 characters, terminated
\* by NUL inside the buffer, whose last two characters are CR LF, all of
\* whose characters were written, and whose length is currentLen.
C13_RecordTerminated ==
    /\ \A i \in BufferCells \ InBuffer : fmt.buffer[i] = "?"
    /\ fmt.pc = "F151" =>
          /\ NulCells(fmt.buffer) \cap InBuffer # {}
          /\ LET n == StrLen(fmt.buffer)
             IN  /\ n <= LOGGER_MSG_MAX_SIZE - 1
                 /\ n >= 2
                 /\ fmt.buffer[n - 2] = "CR" /\ fmt.buffer[n - 1] = "LF"
                 /\ \A i \in 0..(n - 1) : fmt.buffer[i] # "?"
                 /\ fmt.currentLen = n

\* a message longer than the buffer, cut to a record of the full length
C13_Witness ==
    /\ fmt.pc = "F151"
    /\ fmt.msgLen > LOGGER_MSG_MAX_SIZE
    /\ StrLen(fmt.buffer) = LOGGER_MSG_MAX_SIZE - 1
    /\ fmt.buffer[LOGGER_MSG_MAX_SIZE - 4] = "m"

C15_DropOnTimeout ==
    [][(logger.pc = "G184" /\ xUartMutex # "free" /\ logger' # logger) =>
          /\ logger'.pc = "G174"
          /\ logger'.logBuffer # logger.logBuffer
          /\ uartOut' = uartOut /\ uartOut' # logger.logBuffer
          /\ queues' = queues
          /\ \A i \in DOMAIN queues'[QLogger] :
                queues'[QLogger][i] # logger.logBuffer
          /\ xUartMutex' = xUartMutex]_vars

\* the first record of the backlog has left the queue and the logger, and
\* nothing was ever handed to the UART: it was dropped
C15_Witness ==
    /\ logger = LoggerAt("G174", NoRecord)
    /\ queues[QLogger] # <<>>
    /\ Head(queues[QLogger]) # DistinctBacklog(1)[1]
    /\ uartOut = NoRecord
    /\ xUartMutex = "Other"

\* C16 (Spec): the mutex is free or held by the logger, never by another
\* task; the logger holds it exactly from its take to its give, so it is
\* free whenever the logger waits for a record; a record reaches the UART
\* only in a step the logger takes while holding the mutex; and the step
\* after a transmit frees the mutex whether the transmit succeeded or not.
C16_TransmitUnderMutex ==
    /\ [](/\ xUartMutex \in {"free", "Logger"}
          /\ logger.pc \in {"G189", "G192"} <=> xUartMutex = "Logger"
          /\ logger.pc \in {"G174", "G184"} <=> xUartMutex = "free")
    /\ [][/\ uartOut' # uartOut =>
                /\ xUartMutex = "Logger" /\ xUartMutex' = "Logger"
                /\ logger.pc = "G189"
          /\ (logger.pc = "G192" /\ logger' # logger) =>
                /\ xUartMutex' = "free"
                /\ logger'.pc = "G174"]_vars

\* a transmit that failed, made while holding the mutex and not yet given up
C16_Witness ==
    /\ logger.pc = "G192"
    /\ ~logger.txOk
    /\ xUartMutex = "Logger"
    /\ uartOut = logger.logBuffer
    /\ uartOut # NoRecord

\* the event numbered id waits in the dispatcher queue
Waiting(id) ==
    \E i \in DOMAIN queues[QDispatcher] : queues[QDispatcher][i].id = id

\* the event numbered id is in the department queue q
Delivered(id, q) == \E i \in DOMAIN queues[q] : queues[q][i].id = id

\* the event numbered id waits in the dispatcher queue and has the code c
WaitingWith(id, c) ==
    \E i \in DOMAIN queues[QDispatcher] :
        queues[QDispatcher][i].id = id /\ queues[QDispatcher][i].eventCode = c

\* C17 (SpecStall): with the Ambulance queue full for ever, the Police queue
\* full or nearly so, the log queue possibly full for ever and nobody
\* consuming, a router that keeps being scheduled takes every event out of
\* the dispatcher queue and finishes with it (delivered or dropped, back at
\* xQueueReceive); and a Fire event waiting behind other events reaches the
\* Fire queue when that queue has room.
C17_RouterNeverStalls ==
    \A id \in 1..MaxStallEvents :
        /\ Waiting(id) ~> (Routed /\ route.ev.id = id)
        /\ (WaitingWith(id, EVENT_CODE_FIRE_DEPT)
               /\ uxQueueSpacesAvailable(QFireDept) > 0)
              ~> Delivered(id, QFireDept)

\* a Fire event that waited behind others is in the Fire queue, the last
\* event the router finished with, while the Ambulance, Police and log
\* queues are full
C17_Witness ==
    /\ Routed
    /\ route.ev.eventCode = EVENT_CODE_FIRE_DEPT
    /\ route.ev.id > 2
    /\ Delivered(route.ev.id, QFireDept)
    /\ \A q \in {QAmbulance, QPolice, QLogger} : uxQueueSpacesAvailable(q) = 0

\* what the receiver of queue q holds as the item it received
ReceivedFrom(q) ==
    CASE q = QDispatcher -> {disp.receivedEvent}
      [] q = QLogger -> {logger.logBuffer}
      [] OTHER -> {units[u].receivedEvent : u \in {v \in DOMAIN units : v[1] = q}}

StatedCapacity(q) ==
    CASE q = QDispatcher -> 20
      [] q = QLogger -> 50
      [] OTHER -> 10

C20_RngFailureAbsorbed ==
    [][(generated' = generated + 1
          /\ (~lastIsr'.rngOk \/ ~lastIsr'.delayOk)) =>
          /\ ~lastIsr'.rngOk => lastIsr'.event.eventCode = EVENT_CODE_POLICE
          /\ ~lastIsr'.delayOk => ticksUntilNextEvent' = MIN_EVENT_DELAY_TICKS
          /\ queues'[QDispatcher] =
                IF uxQueueSpacesAvailable(QDispatcher) > 0
                THEN Append(queues[QDispatcher], lastIsr'.event)
                ELSE queues[QDispatcher]
          /\ currentTickCount' = 0]_vars

\* an event generated with both draws failing, accepted by the queue
C20_Witness ==
    /\ lastIsr.event # NoEvent
    /\ ~lastIsr.rngOk /\ ~lastIsr.delayOk
    /\ lastIsr.accepted
    /\ lastIsr.event.eventCode = EVENT_CODE_POLICE
    /\ queues[QDispatcher] # <<>>
    /\ queues[QDispatcher][Len(queues[QDispatcher])] = lastIsr.event
    /\ ticksUntilNextEvent = MIN_EVENT_DELAY_TICKS
    /\ currentTickCount = 0

(***************************************************************************)
(* Properties of the fallbacks and of the start-up                         *)
(***************************************************************************)
\* the units that hold a duration drawn while the hardware RNG failed
FallbackUnits == {u \in DOMAIN units : units[u].pc = "R75" /\ ~units[u].rngOk}

\* C21 (SpecUnits): when the hardware RNG fails in the draw of a service
\* duration, the duration is one fixed default value: any two units that
\* hold a duration drawn under a failure hold the same duration.
C21_FixedDefaultDuration ==
    \A u, v \in FallbackUnits :
        units[u].taskDurationTicks = units[v].taskDurationTicks

\* two units hold durations drawn under a failure, the shortest and the
\* longest
C21_Witness ==
    \E u, v \in FallbackUnits :
        /\ units[u].taskDurationTicks = MIN_TASK_DURATION_TICKS
        /\ units[v].taskDurationTicks = MAX_TASK_DURATION_TICKS

\* C22 (SpecInit): the start-up is fail-fast at every stage: once the
\* creation of a queue, of the lock or of a task has failed in some call of
\* the sequence, the start-up is in Error_Handler, and it never runs a later
\* call.
C22_FailFast == startup.failed # {} => startup.pc = Error_Handler

\* the creation of a Police unit failed, and the start-up has gone on to
\* start the scheduler
C22_Witness ==
    /\ startup.failed = {"Police_Init"}
    /\ startup.pc = "running"
    /\ schedulerRunning

\* the units of department q that exist
UnitsOf(q) == {u \in DOMAIN units : u[1] = q}

\* C23 (SpecInit): in a department init, the first xTaskCreate that fails
\* ends the creation of that department's units: the units created are
\* exactly those before the failed one, and the init returns pdFAIL.
C23_FirstFailureAborts ==
    \A q \in DeptQueues :
        startup.createFailed[q] =>
            /\ startup.result[q] = pdFAIL
            /\ startup.created[q] = startup.failAt[q] - 1
            /\ UnitsOf(q) = {<<q, i>> : i \in 1..(startup.failAt[q] - 1)}

\* the second creation of an Ambulance unit failed with more units still to
\* create: one unit exists
C23_Witness ==
    /\ startup.createFailed[QAmbulance]
    /\ startup.failAt[QAmbulance] = 2
    /\ startup.request[QAmbulance] >= RESOURCES_AMBULANCE
    /\ Cardinality(UnitsOf(QAmbulance)) = 1

\* C24 (SpecCalls): a department init called while the department's queue
\* handle is NULL returns pdFAIL and creates no unit, whatever unit count it
\* is called with; EventGenerator_Init called while the dispatcher queue
\* handle is NULL fails (InitializeModules goes to Error_Handler) and leaves
\* the timer stopped.
C24_QueueRequired ==
    /\ \A q \in DeptQueues :
          (startup.result[q] # "none" /\ q \notin handles) =>
              /\ startup.result[q] = pdFAIL
              /\ startup.created[q] = 0
              /\ UnitsOf(q) = {}
    /\ QDispatcher \notin handles =>
          /\ ~timerStarted
          /\ startup.pc \in {"EventGenerator_Init", Error_Handler}

\* Ambulance_Init was called for units while xAmbulanceQueue was NULL, after
\* Police_Init had created its units
C24_Witness ==
    /\ QAmbulance \notin handles
    /\ startup.request[QAmbulance] > 0
    /\ startup.result[QAmbulance] = pdFAIL
    /\ UnitsOf(QPolice) # {}
    /\ UnitsOf(QAmbulance) = {}

\* EventGenerator_Init was called while xDispatcherQueue was NULL
C24_WitnessGenerator ==
    /\ QDispatcher \notin handles
    /\ startup.pc = Error_Handler

\* the init calls of the event generator, the dispatcher and the departments
LaterInits ==
    {"EventGenerator_Init", "Dispatcher_Init", "Police_Init",
     "Ambulance_Init", "FireDept_Init"}

\* C25 (SpecInit): Logger_Init is called, and has succeeded, before the init
\* of the event generator, of the dispatcher and of every department; when
\* Logger_Init fails none of those is called: the timer is not started and
\* no unit exists.
C25_LoggerFirst ==
    /\ \A i \in DOMAIN startup.called :
          startup.called[i] \in LaterInits =>
              /\ \E j \in 1..(i - 1) : startup.called[j] = "Logger_Init"
              /\ "Logger_Init" \notin startup.failed
              /\ QLogger \in handles
    /\ "Logger_Init" \in startup.failed =>
          /\ \A i \in DOMAIN startup.called : startup.called[i] \notin LaterInits
          /\ ~timerStarted
          /\ DOMAIN units = {}
          /\ startup.pc = Error_Handler

\* Logger_Init has failed after the queues and the mutex were created
C25_Witness ==
    /\ startup.called = <<"CreateQueuesAndSemaphores", "Logger_Init">>
    /\ "Logger_Init" \in startup.failed
    /\ startup.pc = Error_Handler

(***************************************************************************)
(* Further properties of the dispatcher                                    *)
(***************************************************************************)
\* the redirection notice (LogInfo of line 292) was issued for the event
\* the router holds or held last
Noticed == \E i \in DOMAIN route.logs : route.logs[i].site = "L292"

\* the send to the alternative queue (line 294) was made and succeeded
AlternateSent ==
    \E j \in DOMAIN route.sends :
        route.sends[j].at = "L294" /\ route.sends[j].ok

\* C26 (Spec): the redirection notice for an event is issued only after the
\* send of that event to the alternative queue has succeeded: whenever the
\* notice has been issued, the successful send has been made.
C26_NoticeAfterSend == Noticed => AlternateSent

\* the notice is issued and the router is about to make the send
C26_Witness ==
    /\ disp.pc = "L294"
    /\ Noticed
    /\ route.sends = <<>>
    /\ route.ev.eventCode = EVENT_CODE_AMBULANCE

\* the first send for the event was the send to the alternative queue, and
\* it timed out
AlternateTimedOut ==
    /\ route.sends # <<>>
    /\ route.sends[1] = [q |-> QPolice, ok |-> FALSE, at |-> "L294"]

\* C27 (SpecRedirect): when the send to the alternative queue times out the
\* router makes exactly one further send, to the primary queue; when that
\* one times out too the event is in no department queue and the last log
\* call is the error of line 303. For every event the router makes at most
\* two sends to department queues and at most one succeeds.
C27_OneFallback ==
    /\ Len(route.sends) <= 2
    /\ Cardinality(OkSends) <= 1
    /\ (Len(route.sends) = 2) => AlternateTimedOut
    /\ (AlternateTimedOut /\ Len(route.sends) = 2) =>
          /\ route.sends[2].q = QAmbulance /\ route.sends[2].at = "L300"
    /\ (AlternateTimedOut /\ Routed) =>
          /\ Len(route.sends) = 2
          /\ route.sends[2].ok => Holds(QAmbulance, route.ev)
          /\ ~route.sends[2].ok =>
                /\ \A q \in DeptQueues : ~Holds(q, route.ev)
                /\ LastLog = LogRecord(LOG_LEVEL_ERROR, "L303")

\* both sends timed out and the event is lost
C27_Witness ==
    /\ Routed
    /\ AlternateTimedOut
    /\ Len(route.sends) = 2 /\ ~route.sends[2].ok
    /\ LastLog.site = "L303"

\* the send to the alternative timed out and the fallback send succeeded
C27_WitnessFallback ==
    /\ Routed
    /\ AlternateTimedOut
    /\ Len(route.sends) = 2 /\ route.sends[2].ok

\* C28 (SpecBusy): an Ambulance event is placed in the Police queue only
\* while the Ambulance queue is full: in every step in which the router's
\* send at line 294 puts the event in the Police queue, the Ambulance queue
\* has no free slot, whatever the Ambulance units did meanwhile.
C28_RedirectOnlyWhenFull ==
    [][(disp.pc = "L294" /\ queues'[QPolice] # queues[QPolice]) =>
          uxQueueSpacesAvailable(QAmbulance) = 0]_vars

\* the router is about to send an Ambulance event to the Police queue, which
\* has room, and the Ambulance queue has a free slot: a unit took an event
\* while the router waited in a log call
C28_Witness ==
    /\ disp.pc = "L294"
    /\ disp.receivedEvent.eventCode = EVENT_CODE_AMBULANCE
    /\ disp.locals.primaryQueueSpaces = 0
    /\ uxQueueSpacesAvailable(QPolice) > 0
    /\ uxQueueSpacesAvailable(QAmbulance) > 0

(***************************************************************************)
(* Further properties of the generator                                     *)
(***************************************************************************)
\* C29 (SpecGen): every event the generator places in the dispatcher queue
\* carries in timeStamp the tick at which it was generated: the last event
\* generated has it, and so has the copy of it at the tail of the queue.
C29_TimeStamp ==
    lastIsr.event # NoEvent =>
        /\ lastIsr.event.timeStamp = lastIsr.tick
        /\ lastIsr.accepted =>
              queues[QDispatcher][Len(queues[QDispatcher])].timeStamp
                  = lastIsr.tick

\* two events generated at different ticks are in the dispatcher queue with
\* the same timeStamp
C29_Witness ==
    /\ generated = 2
    /\ Len(queues[QDispatcher]) >= 2
    /\ LET n == Len(queues[QDispatcher])
       IN  /\ queues[QDispatcher][n] = lastIsr.event
           /\ queues[QDispatcher][n - 1].id = lastIsr.event.id - 1
           /\ queues[QDispatcher][n - 1].timeStamp = lastIsr.event.timeStamp
    /\ lastDelta > 0

(***************************************************************************)
(* The default branch of the router's switch                               *)
(***************************************************************************)
\* the event was generated by HAL_TIM_PeriodElapsedCallback in this run
Generated(ev) == ev.id > IdBase

\* C30 (SpecCodes): no event placed in the dispatcher queue by the generator
\* takes the router to the default branch of its switch (line 250), because
\* its code is Police, Ambulance or Fire; and an event of another code,
\* were one dequeued, gets the warning of line 250 only: the router makes no
\* free-space check and no send for it, no department queue changes while
\* the router holds it, and the router is back at xQueueReceive next.
C30_UnknownCode ==
    /\ []((disp.receivedEvent # NoEvent /\ Generated(disp.receivedEvent)) =>
             /\ disp.receivedEvent.eventCode \in
                   {EVENT_CODE_POLICE, EVENT_CODE_AMBULANCE, EVENT_CODE_FIRE_DEPT}
             /\ disp.pc # "L250")
    /\ []((route.ev # NoEvent /\ route.ev.eventCode \notin
                 {EVENT_CODE_POLICE, EVENT_CODE_AMBULANCE, EVENT_CODE_FIRE_DEPT}) =>
             /\ route.sends = <<>> /\ route.checks = <<>>
             /\ disp.pc \in {"L250", "L214"}
             /\ \A q \in DeptQueues : ~Holds(q, route.ev)
             /\ Routed => route.logs = <<LogRecord(LOG_LEVEL_WARN, "L250")>>)
    /\ [][disp.pc = "L250" =>
             /\ \A q \in DeptQueues : queues'[q] = queues[q]
             /\ disp' # disp => disp'.pc = "L214"]_vars

\* the router has dealt with an event of a code that is none of the three
\* and has gone on: an event of the generator, which waited behind it, is in
\* a department queue
C30_Witness ==
    /\ disp.pc = "L214"
    /\ \E q \in DeptQueues : \E i \in DOMAIN queues[q] :
          /\ Generated(queues[q][i])
          /\ queues[q][i].id = IdBase + 2
    /\ queues[QLogger][Len(queues[QLogger])] = LogRecord(LOG_LEVEL_WARN, "L250")

(***************************************************************************)
(* Further properties of the resource units                                *)
(***************************************************************************)
\* the positions of a unit between its receipt of an event and the end of
\* the service: lines 70 to 77
BusyPcs == {"R70", "R73", "R75", "R75d", "R77"}

\* the units of department q that hold an event in service
InService(q) == {u \in UnitsOf(q) : units[u].receivedEvent # NoEvent}

\* C31 (SpecUnits): a unit that holds an event keeps that event and takes
\* nothing from any queue until its delay has elapsed and it is back at
\* xQueueReceive; the event a unit receives is the head of the queue of its
\* own department, and only that queue loses it; so the events in service in
\* a department are at most as many as its units, which are at most its
\* configured maximum.
C31_BusyUnitReceivesNothing ==
    /\ [](\A q \in DeptQueues :
             /\ \A u \in UnitsOf(q) :
                   (units[u].receivedEvent # NoEvent) <=> (units[u].pc \in BusyPcs)
             /\ Cardinality({units[u].receivedEvent : u \in InService(q)})
                   = Cardinality(InService(q))
             /\ Cardinality(InService(q)) <= Cardinality(UnitsOf(q))
             /\ Cardinality(UnitsOf(q)) <= MaxUnitsOf(q))
    /\ [][\A u \in DOMAIN units :
             /\ (units[u].pc \in BusyPcs /\ units'[u].pc # "R64") =>
                   units'[u].receivedEvent = units[u].receivedEvent
             /\ (units[u].pc \in BusyPcs /\ units'[u] # units[u]) =>
                   \A q \in DeptQueues : Len(queues'[q]) >= Len(queues[q])
             /\ (units'[u].receivedEvent # units[u].receivedEvent
                   /\ units'[u].receivedEvent # NoEvent) =>
                   /\ units[u].pc = "R64"
                   /\ queues[u[1]] # <<>>
                   /\ units'[u].receivedEvent = Head(queues[u[1]])
                   /\ queues'[u[1]] = Tail(queues[u[1]])
                   /\ \A q \in DeptQueues \ {u[1]} : queues'[q] = queues[q]]_vars

\* one unit is suspended in vTaskDelay with its event while events wait in
\* the queue of its department and another unit of the department is serving
C31_Witness ==
    \E u, v \in DOMAIN units :
        /\ u # v /\ u[1] = v[1]
        /\ units[u].pc = "R75d"
        /\ units[v].pc \in BusyPcs
        /\ queues[u[1]] # <<>>

\* an event is at the head of queue q, a unit of the department is blocked
\* in xQueueReceive, and the model has not yet served MaxServed events
HeadWaits(q) ==
    /\ queues[q] # <<>>
    /\ \E u \in UnitsOf(q) : units[u].pc = "R64"
    /\ recvTotal < MaxServed

\* C32 (SpecIdle): when a department queue is not empty and a unit of the
\* department is idle in xQueueReceive, the head event is received by a unit
\* of the department, and this needs no busy unit to end its service (the
\* specification has no fairness for the end of a delay); so a state with a
\* non-empty queue and an idle unit of its department does not persist.
C32_IdleUnitServes ==
    /\ \A q \in DeptQueues : ~<>[]HeadWaits(q)
    /\ [][\A q \in DeptQueues :
             (HeadWaits(q) /\ ~HeadWaits(q)') =>
                 \E u \in UnitsOf(q) :
                     /\ units[u].pc = "R64"
                     /\ units'[u].receivedEvent = Head(queues[q])
                     /\ <<Head(queues[q]).id, u>> \in received']_vars

\* an event went to an idle unit while another unit of the department was
\* suspended in its service delay, and it was not the first event served
C32_Witness ==
    \E u, v \in DOMAIN units :
        /\ u # v /\ u[1] = v[1]
        /\ units[v].pc = "R75d"
        /\ units[u].pc = "R70"
        /\ units[v].receivedEvent # NoEvent
        /\ units[u].receivedEvent.id > units[v].receivedEvent.id

(***************************************************************************)
(* The compile-time log level                                              *)
(***************************************************************************)
\* the variables of the program (fmt is the observer's note of the call)
progVars ==
    <<genVars, genHist, queues, handles, schedulerRunning, disp, units,
      loggerVars, route, unitHist, startup>>

C33_WitnessInfo ==
    /\ fmt.pc = "idle" /\ fmt.level = LOG_LEVEL_INFO
    /\ Len(queues[QLogger]) = LOGGER_QUEUE_LENGTH
    /\ queues[QLogger][LOGGER_QUEUE_LENGTH] = LogRecord(LOG_LEVEL_INFO, "F151")

(***************************************************************************)
(* The router as the only producer of the department queues                *)
(***************************************************************************)
\* the router has read a free slot in q while routing the event it holds
Observed(q) ==
    \E j \in DOMAIN route.checks :
        route.checks[j].q = q /\ route.checks[j].spaces > 0

\* C34 (SpecBusy): the router is the only sender to the department queues
\* and the units only remove items, so a queue in which the router has read a
\* free slot still has one when the router sends to it: that send returns
\* pdPASS. The statements after a failed send to the alternative (lines 297
\* to 303) are never reached, and line 277 is reached only when the primary
\* queue was read full.
C34_SendAfterSpace ==
    /\ \A i \in DOMAIN route.sends :
          Observed(route.sends[i].q) => route.sends[i].ok
    /\ disp.pc \in SendPcs =>
          LET q == SendTarget(disp.pc, disp.locals)
          IN  Observed(q) => uxQueueSpacesAvailable(q) > 0
    /\ disp.pc \notin {"L297", "L299", "L300", "L303"}
    /\ disp.pc = "L277" => ~Observed(disp.locals.xPrimaryQueue)

\* the router read a free slot in the alternative queue and its send
\* succeeded, a unit having taken an event while the router waited in a log
\* call
C34_Witness ==
    /\ route.sends # <<>>
    /\ route.sends[Len(route.sends)].at = "L294"
    /\ route.sends[Len(route.sends)].ok
    /\ Observed(route.sends[Len(route.sends)].q)
    /\ recvTotal > 0

\* the same for the primary queue: read with a free slot, sent to at line 274
C34_WitnessPrimary ==
    /\ route.sends # <<>>
    /\ route.sends[1].at = "L274"
    /\ route.sends[1].ok
    /\ Observed(route.sends[1].q)

(***************************************************************************)
(* Conservation of events                                                  *)
(***************************************************************************)
\* the router holds an event it has received and not yet finished with
RouterHolds == disp.pc \notin {"L209", "L214"}

\* the events on their way or with a unit: in the dispatcher queue, held by
\* the router, in the department queues, received by a unit (in service or
\* completed)
InPipeline ==
    Len(queues[QDispatcher]) + (IF RouterHolds THEN 1 ELSE 0)
        + Len(queues[QPolice]) + Len(queues[QAmbulance])
        + Len(queues[QFireDept]) + recvTotal

\* the identities of the events waiting, held by the router or in service
IdsPresent ==
    UNION {{queues[q][i].id : i \in DOMAIN queues[q]} : q \in EventQueues}
        \cup (IF RouterHolds THEN {disp.receivedEvent.id} ELSE {})
        \cup {units[u].receivedEvent.id :
                 u \in {v \in DOMAIN units : units[v].receivedEvent # NoEvent}}

\* C35 (SpecPipe): every step conserves the events. A generated event adds
\* one to the pipeline or, when the dispatcher queue is full, is lost in the
\* timer handler with no log call; no step of the router or of a unit adds an
\* event, and the only step that removes one is a Warn or Error log call of
\* the router that ends the routing of the event it holds. No event is in
\* two places.
C35_Conservation ==
    /\ [](Cardinality(IdsPresent)
             = InPipeline - recvTotal
                 + Cardinality({u \in DOMAIN units :
                                   units[u].receivedEvent # NoEvent}))
    /\ [][/\ generated' = generated + 1 =>
               \/ /\ InPipeline' = InPipeline + 1
                  /\ lastIsr'.accepted
                  /\ queues'[QDispatcher]
                        = Append(queues[QDispatcher], lastIsr'.event)
               \/ /\ InPipeline' = InPipeline
                  /\ ~lastIsr'.accepted
                  /\ Len(queues[QDispatcher]) = DISPATCHER_QUEUE_LENGTH
                  /\ queues' = queues
                  /\ route' = route
          /\ generated' = generated =>
               \/ InPipeline' = InPipeline
               \/ /\ InPipeline' = InPipeline - 1
                  /\ RouterHolds /\ ~RouterHolds'
                  /\ Len(route'.logs) = Len(route.logs) + 1
                  /\ route'.logs[Len(route'.logs)].level
                        \in {LOG_LEVEL_WARN, LOG_LEVEL_ERROR}]_vars

\* the timer handler has just lost an event on the full dispatcher queue,
\* the router has lost another with an Error log call, and a unit has
\* received an event
C35_Witness ==
    /\ generated = MaxGenEvents
    /\ ~lastIsr.accepted /\ lastIsr.wasFull
    /\ recvTotal > 0
    /\ ~RouterHolds
    /\ route.logs # <<>>
    /\ route.logs[Len(route.logs)].level = LOG_LEVEL_ERROR

(***************************************************************************)
(* The kinds of event of each department                                   *)
(***************************************************************************)
\* the event codes that the queue of a department may hold
CodesOf(q) ==
    CASE q = QAmbulance -> {EVENT_CODE_AMBULANCE}
      [] q = QFireDept -> {EVENT_CODE_FIRE_DEPT}
      [] q = QPolice -> {EVENT_CODE_POLICE, EVENT_CODE_AMBULANCE}

\* C36 (Spec): the Ambulance queue holds only Ambulance events, the Fire
\* queue only Fire events, the Police queue only Police or Ambulance events;
\* so a unit of the Ambulance or Fire department only serves events of its
\* own kind, and a Police unit serves Police or Ambulance events.
C36_KindsPerDepartment ==
    /\ \A q \in DeptQueues : \A i \in DOMAIN queues[q] :
          queues[q][i].eventCode \in CodesOf(q)
    /\ \A u \in DOMAIN units :
          units[u].receivedEvent # NoEvent =>
              units[u].receivedEvent.eventCode \in CodesOf(u[1])

\* a Police unit serves an Ambulance event that the router redirected
C36_Witness ==
    \E u \in DOMAIN units :
        /\ u[1] = QPolice
        /\ units[u].receivedEvent # NoEvent
        /\ units[u].receivedEvent.eventCode = EVENT_CODE_AMBULANCE
        /\ units[u].pc = "R75d"

(***************************************************************************)
(* The two statics of the event generator                                  *)
(***************************************************************************)
\* C37 (SpecGen): from EventGenerator_Init on, whenever the timer handler has
\* returned, MIN_EVENT_DELAY_TICKS <= ticksUntilNextEvent <=
\* MAX_EVENT_DELAY_TICKS and 0 <= currentTickCount < ticksUntilNextEvent; a
\* tick that leaves the counter below ticksUntilNextEvent adds one to the
\* counter and sends no event, draws no interval and leaves the dispatcher
\* queue as it is; a tick that reaches ticksUntilNextEvent resets the counter.
C37_CounterBelowInterval ==
    /\ [](/\ MIN_EVENT_DELAY_TICKS <= ticksUntilNextEvent
          /\ ticksUntilNextEvent <= MAX_EVENT_DELAY_TICKS
          /\ 0 <= currentTickCount
          /\ currentTickCount < ticksUntilNextEvent)
    /\ [][IF currentTickCount + 1 < ticksUntilNextEvent
          THEN /\ currentTickCount' = currentTickCount + 1
               /\ UNCHANGED <<ticksUntilNextEvent, timerStarted, queues,
                              handles, generated, lastIsr>>
          ELSE /\ currentTickCount' = 0
               /\ generated' = generated + 1]_<<currentTickCount,
                                               ticksUntilNextEvent, queues,
                                               generated, lastIsr>>
    /\ DELAY_RANGE_TICKS = MAX_EVENT_DELAY_TICKS - MIN_EVENT_DELAY_TICKS + 1

\* after an event whose interval draw failed, the handler has returned from
\* the last tick below the threshold: nothing but the counter has changed
\* since the event
C37_Witness ==
    /\ generated = 1
    /\ ~lastIsr.delayOk
    /\ ticksUntilNextEvent = MIN_EVENT_DELAY_TICKS
    /\ currentTickCount = MIN_EVENT_DELAY_TICKS - 1
    /\ sinceLast = currentTickCount

(***************************************************************************)
(* A department init that fails part of the way                            *)
(***************************************************************************)
DeptInits == {"Police_Init", "Ambulance_Init", "FireDept_Init"}

\* C38 (SpecPartial): when the k-th xTaskCreate of a department init fails
\* (k counted from 0; failAt = k + 1), the init returns pdFAIL and exactly the
\* k units created before exist; no unit is ever deleted, so these units run
\* and receive from the queue of their department once the scheduler is
\* started; and the start-up goes on to the next call whatever the init
\* returned, up to the start of the scheduler.
C38_NoRollback ==
    /\ [](\A q \in DeptQueues :
             startup.createFailed[q] =>
                 /\ startup.result[q] = pdFAIL
                 /\ UnitsOf(q) = {<<q, i>> : i \in 1..(startup.failAt[q] - 1)}
                 /\ startup.pc # Error_Handler)
    /\ [](schedulerRunning =>
             \A pc \in DeptInits :
                 \E i \in DOMAIN startup.called : startup.called[i] = pc)
    /\ [][/\ \A u \in DOMAIN units : u \in DOMAIN units'
          /\ (startup.pc \in DeptInits /\ startup' # startup) =>
                startup'.pc = IF startup.pc = "Police_Init" THEN "Ambulance_Init"
                              ELSE IF startup.pc = "Ambulance_Init"
                                   THEN "FireDept_Init"
                                   ELSE "vTaskStartScheduler"]_vars

\* the second xTaskCreate of Police_Init failed (k = 1); the one Police unit
\* has received an event from the Police queue, and the units of the
\* departments initialized after it exist
C38_Witness ==
    /\ startup.createFailed[QPolice]
    /\ startup.failAt[QPolice] = 2
    /\ UnitsOf(QPolice) = {<<QPolice, 1>>}
    /\ units[<<QPolice, 1>>].receivedEvent # NoEvent
    /\ units[<<QPolice, 1>>].receivedEvent.eventCode = EVENT_CODE_POLICE
    /\ UnitsOf(QAmbulance) # {}
    /\ UnitsOf(QFireDept) # {}

(***************************************************************************)
(* Order of service                                                        *)
(***************************************************************************)
\* the place of an event in the order of generation, from its identity: the
\* events that wait in a department queue at the start were generated before
\* those that wait in the dispatcher queue, and these before the events the
\* timer handler generates in the run
Rank(id) ==
    IF id <= DISPATCHER_QUEUE_LENGTH THEN IdBase + id
    ELSE IF id <= IdBase THEN id
         ELSE id + DISPATCHER_QUEUE_LENGTH

\* the events that are still on their way to the units: in the dispatcher
\* queue or held by the router
Upstream ==
    {queues[QDispatcher][i] : i \in DOMAIN queues[QDispatcher]}
        \cup (IF RouterHolds THEN {disp.receivedEvent} ELSE {})

\* C39 (SpecOrder): the events of one department queue are received in the
\* order of their generation. Every queue holds its events in that order and
\* whatever is upstream was generated after what is in the department
\* queues; a unit that receives an event receives one that was generated
\* after every event received from that queue before, and before every event
\* that is left in the queue or still upstream.
C39_GenerationOrder ==
    /\ [](/\ \A q \in EventQueues : \A i, j \in DOMAIN queues[q] :
                i < j => Rank(queues[q][i].id) < Rank(queues[q][j].id)
          /\ \A q \in DeptQueues : \A i \in DOMAIN queues[q] : \A e \in Upstream :
                Rank(queues[q][i].id) < Rank(e.id)
          /\ \A r \in received : \A e \in Upstream : Rank(r[1]) < Rank(e.id))
    /\ [][\A u \in DOMAIN units :
             (units'[u].receivedEvent # units[u].receivedEvent
                 /\ units'[u].receivedEvent # NoEvent) =>
                 LET id == units'[u].receivedEvent.id
                 IN  /\ \A r \in received : r[2][1] = u[1] => Rank(r[1]) < Rank(id)
                     /\ \A i \in DOMAIN queues'[u[1]] :
                           Rank(id) < Rank(queues'[u[1]][i].id)
                     /\ \A e \in Upstream' : Rank(id) < Rank(e.id)]_vars

\* the event that waited in the dispatcher queue and the event the handler
\* generated after it went to the same department queue and were received,
\* the first by a unit that is still serving it
C39_Witness ==
    \E u, v \in DOMAIN units :
        /\ u # v
        /\ units[u].receivedEvent # NoEvent
        /\ units[v].receivedEvent # NoEvent
        /\ units[u].receivedEvent.id <= DISPATCHER_QUEUE_LENGTH
        /\ units[v].receivedEvent.id > IdBase

(***************************************************************************)
(* The logger as the only taker of the mutex                               *)
(***************************************************************************)
\* the records the units put in the log queue
UnitRecords == {LogRecord(LOG_LEVEL_INFO, site) : site \in UnitLogPcs}

\* record r waits in the log queue
InLogQueue(r) == \E i \in DOMAIN queues[QLogger] : queues[QLogger][i] = r

\* C40 (SpecLogger): the logger is the only task that takes xUartMutex, so
\* the mutex is free whenever the logger is about to take it: the take
\* succeeds and the record the logger holds is handed to the UART, none is
\* dropped; and with the logger scheduled fairly every record that was
\* accepted into the log queue is handed to the UART, and the log queue is
\* drained in the end.
C40_LoggerAloneTakes ==
    /\ [](/\ xUartMutex \in {"free", "Logger"}
          /\ xUartMutex = "Logger" <=> logger.pc \in {"G189", "G192"}
          /\ logger.pc = "G184" => xUartMutex = "free")
    /\ [][/\ (logger.pc = "G184" /\ logger' # logger) =>
                /\ logger'.pc = "G189"
                /\ logger'.logBuffer = logger.logBuffer
          /\ (logger.pc = "G189" /\ logger' # logger) =>
                uartOut' = logger.logBuffer]_vars
    /\ \A r \in UnitRecords : InLogQueue(r) ~> (uartOut = r)
    /\ <>[](queues[QLogger] = <<>> /\ logger.pc = "G174" /\ xUartMutex = "free")

\* the message of a unit that has received an event was accepted into the
\* log queue and has been handed to the UART, and the log queue is empty
C40_Witness ==
    /\ uartOut = LogRecord(LOG_LEVEL_INFO, "R70")
    /\ queues[QLogger] = <<>>
    /\ logger.pc = "G192"
    /\ recvTotal > 0

====
